---- MODULE Spec2Model ----
(***************************************************************************)
(* Model of the PingMonitor monitoring engine                              *)
(* (src/core/monitoring_engine.py): the result-processing pipeline, the    *)
(* two-signal status state machine, the auto-recovery orchestrator with    *)
(* its cooldown lock, the one-shot timers and the scheduler tick; and of   *)
(* the services of src/services/performance_service.py: the batch writer,  *)
(* the performance metrics and the device cache.                           *)
(*                                                                         *)
(* Spec: one engine run, store and callbacks do not fail.                  *)
(* SpecFaults: the store and the on_recovery_failure callback may fail.    *)
(* SpecSched: the run together with the scheduler thread.                  *)
(* SpecQueue: scheduler, priority queue and polling rounds, two devices.   *)
(* SpecPause: the two loops with pause() and resume().                     *)
(* SpecRound: the polling round with its 30 s bound.                       *)
(* SpecStop: start(), the recoveries and timers, and stop().               *)
(* SpecRestart: the loops, stop() and a second start().                    *)
(* SpecOverlap: result handling and recoveries across stop() and start().  *)
(* SpecProbes: the polling rounds with probes that return or raise.        *)
(* SpecWriter: the batch writer with a store that accepts every write.     *)
(* SpecWriterFaults: the batch writer with a store that may fail.          *)
(* SpecMetrics: record_check and get_percentiles.                          *)
(* SpecCache: the device cache while time passes.                          *)
(* SpecReload: result handling, edits of the store and reload_devices().   *)
(* SpecSummary: the periodic and the on-demand performance summary.        *)
(* SpecCancel: rounds whose futures wait in the pool's queue, and stop().  *)
(* SpecCooldown: a device that stays degraded after a recovery attempt.    *)
(* SpecRemove: remove_device() next to the scheduler and the rounds.       *)
(*                                                                         *)
(* Threads: thread 0 is the monitoring thread (_monitoring_loop), threads  *)
(* 1..MaxTimers are threading.Timer threads created by _schedule_timer,    *)
(* thread MaxTimers + 1 is the monitoring thread of a second start(),      *)
(* thread MaxTimers + 2 is the caller of stop(), thread MaxTimers + 3 is   *)
(* the scheduler thread and thread MaxTimers + 4 the performance panel.    *)
(* Time is in seconds.                                                     *)
(***************************************************************************)
EXTENDS Integers, Sequences, FiniteSets, TLC

\* ---------------------------------------------------------------- bounds
MaxChecks == 3          \* results processed by the engine in one run
MaxChecksSmall == 2     \* the same, in the runs with failures or restarts
MaxChecksLong == 5      \* results processed in a run that follows a cooldown
MaxTime == 300          \* the clock stops advancing here
MaxTimers == 2          \* threading.Timer objects alive at the same time
MaxFaults == 1          \* failures of the store and of callbacks in one run
MaxTicks == 2           \* scheduler ticks in one run
MaxPauses == 1          \* calls of pause() in one run
MaxReloads == 1         \* calls of reload_devices() in one run
MaxRemoves == 1         \* calls of remove_device() in one run
MaxAdds == 52           \* results handed to the batch writer in one run
MaxWriterTime == 2      \* the clock of the runs of the batch writer stops here
MaxBatches == 2         \* flushes the batch writer tries in one run
window_size == 3        \* capacity of a latency window (1000 in the program)
MaxGets == 3            \* calls of DeviceCache.get in one run

\* ---------------------------------------------------- program constants
RecoveryCooldown == 300       \* _attempt_auto_recovery: time_since_last < 300
StartupRecoveryDelay == 5     \* _recover_already_degraded_devices: 5.0
RecheckDelay == 30            \* _attempt_auto_recovery: 30.0
ForceRewind == 3600           \* timedelta(hours=1)
batch_size == 50              \* BatchDatabaseWriter(batch_size=50, ...)
flush_interval == 2           \* BatchDatabaseWriter(..., flush_interval=2.0)
ttl_seconds == 300            \* DeviceCache(ttl_seconds=300)
max_workers == 10             \* MonitoringEngine(max_workers=10)
RoundBound == 30              \* as_completed(future_to_task, timeout=30)
PerfLogInterval == 300        \* _scheduler_loop: time.time() - last_perf_log >= 300

Devices == {1, 2}
TimerIds == 1..MaxTimers
MonitorThread == 0                    \* the thread of the first start()
SecondMonitorThread == MaxTimers + 1  \* the one a later start() creates
MonitorThreads == {MonitorThread, SecondMonitorThread}
Threads == MonitorThreads \cup TimerIds
StopThread == MaxTimers + 2           \* the client thread that calls stop()
SchedThread == MaxTimers + 3          \* the scheduler thread
PanelThread == MaxTimers + 4          \* the thread of the performance panel

CheckTypes == {"ping", "http", "https", "ssh", "dns", "snmp"}
Statuses == {"unknown", "online", "degraded", "offline"}
SignalStatuses == {"unset", "success", "failed"}
ResponseTimes == {10, 500}
QuickResponse == 10
TimeSteps == {150, 300}
CheckIntervals == {3600, 7200}   \* spin_interval: 10..86400, default 3600
KindOrder == <<"ping", "http", "https", "ssh", "dns", "snmp">>
StoreFaults == {"ok", "no_session", "commit_failed"}
FlushOutcomes == StoreFaults \cup {"rollback_failed"}
RecoveryOutcomes == {"success", "failure", "raise"}
QueueSlots == 1..(MaxTicks * Cardinality(CheckTypes) * Cardinality(Devices))
FutureIds == 1..max_workers

\* self.check_services after main.py has registered the probes: no probe
\* is registered for SNMP
check_services == CheckTypes \ {"snmp"}
ProbeOutcomes == {"returned", "raise"}

VARIABLES
    running,               \* self.running
    devices,               \* self.devices: id -> Device (config + runtime state)
    last_check_times,      \* self.last_check_times: id -> time
    auto_recovery_service, \* self.auto_recovery_service is set
    recovery_attempts,     \* self.recovery_attempts: ip -> time of last attempt
    recovery_lock,         \* holder of self._recovery_attempts_lock, -1 when free
    timers,                \* threading.Timer objects: id -> [state, kind, dev, due]
    active_timers,         \* self._active_timers
    statistics,            \* self.statistics
    pending_results,       \* len(batch_writer.pending_results)
    db,                    \* the devices table of the store: id -> row
    now,                   \* datetime.utcnow()
    task_queue,            \* self.task_queue: (priority, CheckTask) entries
    mon,                   \* per monitoring thread: inside _process_check_result
    rec,                   \* per thread: position inside _attempt_auto_recovery
    attempt_log,           \* history: calls of attempt_recovery per device
    obs,                   \* history: per-device event counters
    faults,                \* history: collaborator failures so far
    lastProc,              \* history: the last completed _process_check_result
    sched,                 \* history: scheduler ticks and forced re-checks
    paused,                \* self.paused
    executor,              \* state of the pool self.executor refers to
    executor_shutdown,     \* self.executor_shutdown
    monitor_thread,        \* self._monitor_thread
    loop,                  \* per monitoring thread: position in _monitoring_loop
    sched_pc,              \* position of the scheduler thread in its loop
    stop_pc,               \* position of the caller of stop() inside stop()
    metrics_lock,          \* holder of performance_metrics.lock
    life,                  \* history: restarts and timers fired after stop()
    last_flush,            \* batch_writer.last_flush
    total_batches,         \* batch_writer.total_batches
    total_records,         \* batch_writer.total_records
    check_results,         \* rows of the check_results table of the store
    flush_thread,          \* batch_writer._flush_thread: "alive" or "dead"
    writer_log,            \* history: the last call made on the batch writer
    response_times,        \* performance_metrics.response_times: kind -> window
    check_counts,          \* performance_metrics.check_counts: kind -> count
    success_counts,        \* performance_metrics.success_counts: kind -> count
    recorded,              \* history: every record_check call, per kind
    percentiles,           \* history: what the last get_percentiles returned
    cache,                 \* device_cache.cache: id -> entry
    hits,                  \* device_cache.hits
    misses,                \* device_cache.misses
    cache_log,             \* history: the last call made on the device cache
    last_perf_log          \* last_perf_log of the running _scheduler_loop

\* the collaborators of the engine, which the engine's steps leave alone
writerVars == <<last_flush, total_batches, total_records, check_results,
                flush_thread, writer_log>>
metricVars == <<response_times, check_counts, success_counts, recorded,
                percentiles>>
cacheVars == <<cache, hits, misses, cache_log>>
svcRest == <<metricVars, cacheVars>>
svcVars == <<writerVars, svcRest, last_perf_log>>
engineVars == <<running, devices, last_check_times, auto_recovery_service,
                svcVars, recovery_attempts, recovery_lock, timers, active_timers,
                statistics, pending_results, db, now, task_queue>>
threadVars == <<mon, rec>>
histVars == <<attempt_log, obs, faults, lastProc, sched>>
lifeVars == <<paused, executor, executor_shutdown, monitor_thread, loop,
              sched_pc, stop_pc, metrics_lock, life>>
vars == <<engineVars, threadVars, histVars, lifeVars>>
lifeRest == <<paused, executor, executor_shutdown, monitor_thread, sched_pc,
              stop_pc, metrics_lock, life>>
queueRest == <<running, devices, last_check_times, auto_recovery_service,
               svcVars, recovery_attempts, recovery_lock, timers, active_timers,
               statistics, pending_results, db, now>>
schedVars == <<task_queue, sched>>

\* ------------------------------------------------------------- helpers
NoThread == 0 - 1

\* Device.uptime_percentage as the exact rational <<numerator, denominator>>
Uptime(successful, total) ==
    IF total > 0 THEN <<successful * 100, total>> ELSE <<100, 1>>

RatEq(a, b) == a[1] * b[2] = b[1] * a[2]

SignalOf(success) == IF success THEN "success" ELSE "failed"

\* rows of the devices table (src/src/models/device.py); ping_status,
\* web_status and requires_manual_intervention are not columns
DeviceConfigs ==
    { c \in [enabled : {TRUE}, device_type : {"generic", "PAI-PL"},
             ping_enabled : BOOLEAN, http_enabled : BOOLEAN,
             https_enabled : BOOLEAN, ssh_enabled : BOOLEAN,
             dns_enabled : {FALSE}, snmp_enabled : {FALSE},
             check_interval : CheckIntervals] :
        \/ /\ c.device_type = "generic" /\ c.ping_enabled /\ ~c.https_enabled
           /\ (c.ssh_enabled => c.http_enabled)
           /\ (c.check_interval # 3600 => c.ssh_enabled)
        \/ /\ c.device_type = "PAI-PL" /\ c.ping_enabled /\ c.https_enabled
           /\ ~c.http_enabled /\ ~c.ssh_enabled /\ c.check_interval = 3600
        \/ /\ c.device_type = "generic" /\ ~c.ping_enabled /\ c.http_enabled
           /\ ~c.https_enabled /\ c.ssh_enabled /\ c.check_interval = 3600 }

NewRow(c, status) ==
    [enabled |-> c.enabled, device_type |-> c.device_type,
     ping_enabled |-> c.ping_enabled, http_enabled |-> c.http_enabled,
     https_enabled |-> c.https_enabled, ssh_enabled |-> c.ssh_enabled,
     dns_enabled |-> c.dns_enabled, snmp_enabled |-> c.snmp_enabled,
     check_interval |-> c.check_interval,
     current_status |-> status,
     total_checks |-> 0, successful_checks |-> 0, failed_checks |-> 0,
     uptime_percentage |-> <<100, 1>>]

\* a Device object freshly loaded from its row: the attributes the engine
\* adds at run time are absent ("unset" / FALSE under hasattr/getattr)
LoadDevice(row) ==
    [enabled |-> row.enabled, device_type |-> row.device_type,
     ping_enabled |-> row.ping_enabled, http_enabled |-> row.http_enabled,
     https_enabled |-> row.https_enabled, ssh_enabled |-> row.ssh_enabled,
     dns_enabled |-> row.dns_enabled, snmp_enabled |-> row.snmp_enabled,
     check_interval |-> row.check_interval,
     current_status |-> row.current_status, response_time |-> 0,
     total_checks |-> row.total_checks,
     successful_checks |-> row.successful_checks,
     failed_checks |-> row.failed_checks,
     uptime_percentage |-> row.uptime_percentage,
     ping_status |-> "unset", web_status |-> "unset",
     requires_manual_intervention |-> FALSE]

\* add_device: SSH is force-enabled for PAI-PL devices
add_device(device) ==
    IF device.device_type = "PAI-PL"
    THEN [device EXCEPT !.ssh_enabled = TRUE]
    ELSE device

EnabledChecks(device) ==
    {k \in CheckTypes :
        \/ k = "ping" /\ device.ping_enabled
        \/ k = "http" /\ device.http_enabled
        \/ k = "https" /\ device.https_enabled
        \/ k = "ssh" /\ device.ssh_enabled
        \/ k = "dns" /\ device.dns_enabled
        \/ k = "snmp" /\ device.snmp_enabled}

WebEnabled(device) == device.http_enabled \/ device.https_enabled

\* variant: a web success outweighs the ping failure
determine_device_status_web_wins(device) ==
    IF device.ping_status = "failed"
    THEN IF device.web_status = "success" THEN "degraded" ELSE "offline"
    ELSE IF device.ping_status = "success"
         THEN IF WebEnabled(device)
              THEN IF device.web_status = "failed" THEN "degraded"
                   ELSE IF device.web_status = "success" THEN "online"
                   ELSE device.current_status
              ELSE "online"
         ELSE device.current_status

\* variant: a ping success counts as online while the web signal is pending
determine_device_status_pending_online(device) ==
    IF device.ping_status = "failed" THEN "offline"
    ELSE IF device.ping_status = "success"
         THEN IF WebEnabled(device) /\ device.web_status = "failed"
              THEN "degraded"
              ELSE "online"
         ELSE device.current_status

\* _determine_device_status
determine_device_status(device) ==
    IF device.ping_status = "failed" THEN "offline"
    ELSE IF device.ping_status = "success"
         THEN IF WebEnabled(device)
              THEN IF device.web_status = "failed" THEN "degraded"
                   ELSE IF device.web_status = "success" THEN "online"
                   ELSE device.current_status
              ELSE "online"
         ELSE device.current_status

\* _process_check_result, lines 645-649: the signal of the completed kind
UpdateSignals(device, check_type, success) ==
    [device EXCEPT
        !.ping_status = IF check_type = "ping" THEN SignalOf(success) ELSE @,
        !.web_status = IF check_type \in {"http", "https"}
                       THEN SignalOf(success) ELSE @]

\* variant: the first status of a device is not taken as a change
StatusChanged_known(old_status, new_status) ==
    new_status # old_status /\ old_status # "unknown"

\* _process_check_result, line 655
StatusChanged(old_status, new_status) == new_status # old_status

\* variant: only a device that was online counts as entering degraded
EntersDegraded_from_online(old_status, new_status) ==
    new_status = "degraded" /\ old_status = "online"

\* _handle_status_change, line 824
EntersDegraded(old_status, new_status) ==
    new_status = "degraded" /\ old_status # "degraded"

\* _handle_status_change, line 825
RecoveryConfigured(device, service) == device.ssh_enabled /\ service

\* variant: every result that finds the device degraded triggers recovery
TriggersRecovery_while_degraded(old_status, new_status, device, service) ==
    new_status = "degraded" /\ RecoveryConfigured(device, service)

\* lines 655-656 and 824-827: the result makes the handler call
\* _attempt_auto_recovery
TriggersRecovery(old_status, new_status, device, service) ==
    /\ StatusChanged(old_status, new_status)
    /\ EntersDegraded(old_status, new_status)
    /\ RecoveryConfigured(device, service)

\* _attempt_auto_recovery, lines 919-924
CooldownActive(t, last_attempt) == t - last_attempt < RecoveryCooldown

\* variant: the cooldown is checked and recorded without the lock
LockFree_open(holder) == TRUE

\* with self._recovery_attempts_lock
LockFree(holder) == holder = NoThread


HasAttr(signal) == signal # "unset"

\* variant: the derived status is not stored in the device
ApplyStatus_stale(device, new_status, response_time) ==
    [device EXCEPT !.response_time = response_time,
                   !.total_checks = @ + 1]

\* _process_check_result, lines 659-662
ApplyStatus(device, new_status, response_time) ==
    [device EXCEPT !.current_status = new_status,
                   !.response_time = response_time,
                   !.total_checks = @ + 1]

\* _persist_device_updates, lines 731-737: the columns written on commit
persist_device_updates(row, device) ==
    [row EXCEPT !.current_status = device.current_status,
                !.total_checks = device.total_checks,
                !.successful_checks = device.successful_checks,
                !.failed_checks = device.failed_checks,
                !.uptime_percentage = device.uptime_percentage]

BothFailed(device) ==
    device.ping_status = "failed" /\ device.web_status = "failed"

\* _process_check_result, lines 672-676: the manual-intervention alert fires
ManualAlertFires(device) ==
    /\ HasAttr(device.ping_status) /\ HasAttr(device.web_status)
    /\ BothFailed(device)
    /\ ~device.requires_manual_intervention

\* _process_check_result, lines 672-685
TrackManualIntervention(device) ==
    IF HasAttr(device.ping_status) /\ HasAttr(device.web_status)
    THEN IF BothFailed(device)
         THEN [device EXCEPT !.requires_manual_intervention = TRUE]
         ELSE IF device.ping_status = "success" \/ device.web_status = "success"
              THEN [device EXCEPT !.requires_manual_intervention = FALSE]
              ELSE device
    ELSE device

\* _process_check_result, lines 687-692
UpdateCounters(device, success) ==
    LET counted == IF success
                   THEN [device EXCEPT !.successful_checks = @ + 1]
                   ELSE [device EXCEPT !.failed_checks = @ + 1]
    IN [counted EXCEPT !.uptime_percentage =
            Uptime(counted.successful_checks, counted.total_checks)]

\* _process_check_result, lines 658-700, from the device as updated so far.
\* fault: what the store does in _persist_device_updates; cb_raises: whether
\* the registered on_recovery_failure callback raises.  The outer
\* try/except (line 701) abandons the rest of the handler on an exception.
FinishResult(device, new_status, success, response_time, fault, cb_raises) ==
    LET applied == ApplyStatus(device, new_status, response_time)
        tracked == TrackManualIntervention(applied)
        fires == ManualAlertFires(applied)
    IN IF fault = "no_session"
       THEN [device |-> applied, persisted |-> FALSE, manual_alert |-> FALSE,
             aborted |-> TRUE]
       ELSE IF fires /\ cb_raises
       THEN [device |-> tracked, persisted |-> fault = "ok",
             manual_alert |-> TRUE, aborted |-> TRUE]
       ELSE [device |-> UpdateCounters(tracked, success),
             persisted |-> fault = "ok", manual_alert |-> fires,
             aborted |-> FALSE]

\* history: an attempt for device d was recorded less than the cooldown ago
RecentAttempt(d) ==
    \E i \in 1..Len(attempt_log[d]) :
        now - attempt_log[d][i].at < RecoveryCooldown

IdleRec == [pc |-> "idle", dev |-> 0, has_last |-> FALSE, last |-> 0,
            result |-> "none", recent |-> FALSE]

NoCall == [op |-> "none", outcome |-> "ok", raised |-> FALSE]

NoProc == [dev |-> 0, old_status |-> "unknown", new_status |-> "unknown",
           attempts |-> 0, recovery |-> "none", recent_attempt |-> FALSE,
           responsive |-> FALSE, manual |-> FALSE, aborted |-> FALSE,
           status_cbs |-> << >>, fault |-> "ok"]

\* history: a processed result took the device from a non-degraded status
\* to degraded
IsDegradedEntry(old_status, new_status) ==
    old_status # "degraded" /\ new_status = "degraded"

IdleMon == [pc |-> "idle", dev |-> 0, check_type |-> "none",
            success |-> FALSE, response_time |-> 0,
            old_status |-> "unknown", new_status |-> "unknown",
            was_both_failed |-> FALSE]

FreeTimer == [state |-> "free", kind |-> "none", dev |-> 0, due |-> 0]

NoObs == [degraded_entries |-> 0, startup_timers |-> 0, recheck_timers |-> 0,
          recovery_successes |-> 0, cb_recovery_success |-> 0,
          cb_recovery_failure |-> 0, cb_manual |-> 0,
          both_failed_entries |-> 0, degraded_at_start |-> FALSE,
          cb_status_change |-> 0, entry_skipped |-> FALSE]

\* a monitoring thread that does not run; futs is the round: the dequeued
\* tasks with the state of their futures
DeadLoop == [pc |-> "dead", futs |-> << >>, since |-> 0, idx |-> 0]

\* removed: the Device objects that remove_device has taken out of the
\* registry and that tasks may still refer to, each with the row and the
\* number of queued tasks of the moment of the removal, and with the
\* number of results processed for it since
NoLife == [restart |-> "none", late_timers |-> 0, rejected |-> 0, pauses |-> 0,
           reloads |-> 0, removed |-> [d \in {} |-> 0]]

NoSched == [ticks |-> 0, forced |-> {}, forced_again |-> {}, rechecked |-> {}]

\* ------------------------------------------------------------------ Init
\* the rows of enabled devices, with fresh counters
Rows == {NewRow(c, s) : c \in DeviceConfigs, s \in Statuses}

\* the row of a device that is disabled: load_devices leaves it out
DisabledRow ==
    [NewRow(CHOOSE c \in DeviceConfigs :
                ~c.http_enabled /\ ~c.https_enabled /\ ~c.ssh_enabled,
            "unknown") EXCEPT !.enabled = FALSE]

\* a store with one enabled device
OneDeviceStores ==
    {f \in [Devices -> Rows \cup {DisabledRow}] :
        f[1] \in Rows /\ \A d \in Devices \ {1} : f[d] = DisabledRow}

\* a store with two enabled devices, the second one checked by ping only
TwoDeviceStores ==
    {f \in [Devices -> Rows] :
        /\ \A d \in Devices : f[d].check_interval = 3600 /\ ~f[d].ssh_enabled
        /\ f[1].http_enabled /\ f[1].ping_enabled
        /\ \A d \in Devices \ {1} :
            f[d].ping_enabled /\ ~f[d].http_enabled /\ ~f[d].https_enabled}

\* nothing was asked of the metrics or of the cache yet
NoPercentiles == [check_type |-> "none", times |-> << >>, p50 |-> <<0, 1>>,
                  p95 |-> <<0, 1>>, p99 |-> <<0, 1>>]
NoEntry == [cached |-> FALSE, expires_at |-> 0]
NoCacheCall == [op |-> "none", dev |-> 0, hit |-> FALSE, at |-> 0,
                entry |-> NoEntry]

\* MonitoringEngine.__init__
InitEngine ==
    /\ running = FALSE
    /\ devices = [d \in {} |-> 0]
    /\ last_check_times = [d \in {} |-> 0]
    /\ recovery_attempts = [d \in {} |-> 0]
    /\ recovery_lock = NoThread
    /\ timers = [i \in TimerIds |-> FreeTimer]
    /\ active_timers = {}
    /\ statistics = [total_checks |-> 0, successful_checks |-> 0,
                     failed_checks |-> 0]
    /\ pending_results = 0
    /\ now = 0
    /\ mon = [m \in MonitorThreads |-> IdleMon]
    /\ rec = [t \in Threads |-> IdleRec]
    /\ attempt_log = [d \in Devices |-> << >>]
    /\ obs = [d \in Devices |-> NoObs]
    /\ faults = 0
    /\ lastProc = NoProc
    /\ task_queue = << >>
    /\ sched = NoSched
    /\ paused = FALSE
    /\ executor = "live"
    /\ executor_shutdown = FALSE
    /\ monitor_thread = NoThread
    /\ loop = [m \in MonitorThreads |-> DeadLoop]
    /\ sched_pc = "test"
    /\ stop_pc = "none"
    /\ metrics_lock = NoThread
    /\ life = NoLife
    /\ last_flush = 0
    /\ total_batches = 0
    /\ total_records = 0
    /\ check_results = 0
    /\ flush_thread = "alive"
    /\ writer_log = NoCall
    /\ response_times = [k \in CheckTypes |-> << >>]
    /\ check_counts = [k \in CheckTypes |-> 0]
    /\ success_counts = [k \in CheckTypes |-> 0]
    /\ recorded = [k \in CheckTypes |-> << >>]
    /\ percentiles = NoPercentiles
    /\ cache = [d \in Devices |-> NoEntry]
    /\ hits = 0
    /\ misses = 0
    /\ cache_log = NoCacheCall
    /\ last_perf_log = 0

\* MonitoringEngine.__init__, then set_auto_recovery_service (or not); the
\* store holds the device rows of earlier runs
Init ==
    /\ InitEngine
    /\ auto_recovery_service \in BOOLEAN
    /\ db \in OneDeviceStores


\* ---------------------------------------------------------------- timers
FreeTimers == {i \in TimerIds : timers[i].state = "free"}

\* _schedule_timer: the Timer is created, registered in _active_timers and
\* started; the new Timer is the lowest free slot
NewTimer == CHOOSE i \in FreeTimers : \A j \in FreeTimers : i <= j

schedule_timer(tm, delay, kind, d) ==
    [tm EXCEPT ![NewTimer] = [state |-> "pending", kind |-> kind, dev |-> d,
                              due |-> now + delay]]

\* --------------------------------------------------------------- start()
\* variant: every recovery-capable device gets a startup recovery timer
DegradedAtStart_any(loaded) ==
    {d \in DOMAIN loaded : RecoveryConfigured(loaded[d], auto_recovery_service)}

\* _recover_already_degraded_devices, lines 852-864: the loaded devices that
\* get a startup recovery timer
DegradedAtStart(loaded) ==
    {d \in DOMAIN loaded :
        /\ loaded[d].current_status = "degraded"
        /\ RecoveryConfigured(loaded[d], auto_recovery_service)}

Rank(d, S) == Cardinality({e \in S : e <= d})

\* the r-th free Timer slot
FreeTimerAt(r) == CHOOSE i \in FreeTimers : Rank(i, FreeTimers) = r

\* the thread object that start() creates for _monitoring_loop
DeadMonitors == {m \in MonitorThreads : loop[m].pc = "dead"}
NewMonitor == CHOOSE m \in DeadMonitors : \A j \in DeadMonitors : m <= j

\* variant: start() keeps the pool it has
PoolAfterStart_reused(pool, shutdown_flag) == pool

\* start(), lines 217-221: the pool is recreated when stop() has marked it
\* as shut down
PoolAfterStart(pool, shutdown_flag) == IF shutdown_flag THEN "live" ELSE pool

\* history: where stop() was when start() was called again
RestartKind ==
    IF stop_pc = "none" THEN life.restart
    ELSE IF stop_pc \in {"summary", "get_throughput", "returned"} THEN "after"
    ELSE "during"

\* the scheduler thread does not come back: it is inside the periodic
\* log_summary(), waiting for the lock of the metrics
SchedBlocked == {"log_summary", "get_throughput"}

\* start(): the pool is recreated when stop() has shut it down,
\* load_devices (add_device for every enabled row), the threads are
\* started (a new scheduler thread begins with last_perf_log = now, line
\* 335), then a 5 s recovery timer per already-degraded device
start ==
    /\ ~running
    /\ DeadMonitors # {}
    /\ paused' = FALSE
    /\ executor' = PoolAfterStart(executor, executor_shutdown)
    /\ executor_shutdown' = FALSE
    /\ monitor_thread' = NewMonitor
    /\ loop' = [loop EXCEPT ![NewMonitor] = [DeadLoop EXCEPT !.pc = "top"]]
    /\ life' = [life EXCEPT !.restart = RestartKind]
    /\ sched_pc' = IF sched_pc \in SchedBlocked THEN "test" ELSE sched_pc
    /\ last_perf_log' = now
    /\ UNCHANGED <<stop_pc, metrics_lock>>
    /\ LET enabled_ids == {d \in Devices : db[d].enabled}
           loaded == [d \in enabled_ids |-> add_device(LoadDevice(db[d]))]
           degraded == DegradedAtStart(loaded)
       IN /\ Cardinality(degraded) <= Cardinality(FreeTimers)
          /\ running' = TRUE
          /\ devices' = loaded
          /\ last_check_times' = [d \in enabled_ids |-> now - ForceRewind]
          /\ timers' = [i \in TimerIds |->
                IF \E d \in degraded : FreeTimerAt(Rank(d, degraded)) = i
                THEN [state |-> "pending", kind |-> "startup",
                      dev |-> CHOOSE d \in degraded :
                                FreeTimerAt(Rank(d, degraded)) = i,
                      due |-> now + StartupRecoveryDelay]
                ELSE timers[i]]
          /\ active_timers' = active_timers \cup
                {FreeTimerAt(Rank(d, degraded)) : d \in degraded}
          /\ obs' = [d \in Devices |->
                [obs[d] EXCEPT
                    !.startup_timers = IF d \in degraded THEN @ + 1 ELSE @,
                    !.degraded_at_start =
                        d \in enabled_ids /\ db[d].current_status = "degraded"]]
    /\ UNCHANGED <<auto_recovery_service, writerVars, svcRest,
                   recovery_attempts, recovery_lock,
                   statistics, pending_results, db, now, mon, rec,
                   attempt_log, faults, lastProc>>
    /\ UNCHANGED schedVars

\* ------------------------------------------------------ BatchDatabaseWriter
\* the batch writer and the table it writes to, as one value
Writer ==
    [pending_results |-> pending_results, last_flush |-> last_flush,
     total_batches |-> total_batches, total_records |-> total_records,
     check_results |-> check_results]

\* variant: a flush that fails throws its batch away
flush_drops_failed_batch(w, at, outcome) ==
    IF w.pending_results = 0
    THEN [writer |-> w, raised |-> FALSE, tried |-> FALSE]
    ELSE IF outcome = "ok"
    THEN [writer |-> [w EXCEPT !.check_results = @ + w.pending_results,
                               !.total_batches = @ + 1,
                               !.total_records = @ + w.pending_results,
                               !.pending_results = 0,
                               !.last_flush = at],
          raised |-> FALSE, tried |-> TRUE]
    ELSE [writer |-> [w EXCEPT !.pending_results = 0],
          raised |-> outcome \in {"no_session", "rollback_failed"},
          tried |-> TRUE]

\* _flush, lines 143-186, at time `at` with the store doing `outcome`.
\* "no_session": get_session raises inside the try, and session is
\* unbound in the except and finally clauses, so a NameError leaves
\* _flush; "commit_failed": the insert or the commit raises, the rollback
\* succeeds and the buffer is kept; "rollback_failed": the rollback in the
\* except clause raises too
flush(w, at, outcome) ==
    IF w.pending_results = 0
    THEN [writer |-> w, raised |-> FALSE, tried |-> FALSE]
    ELSE IF outcome = "ok"
    THEN [writer |-> [w EXCEPT !.check_results = @ + w.pending_results,
                               !.total_batches = @ + 1,
                               !.total_records = @ + w.pending_results,
                               !.pending_results = 0,
                               !.last_flush = at],
          raised |-> FALSE, tried |-> TRUE]
    ELSE [writer |-> w,
          raised |-> outcome \in {"no_session", "rollback_failed"},
          tried |-> TRUE]

Untouched(w) == [writer |-> w, raised |-> FALSE, tried |-> FALSE]

\* variant: the size trigger fires one result late
SizeTrigger_late(pending) == pending > batch_size

\* add_check_result, line 126
SizeTrigger(pending) == pending >= batch_size

\* variant: the ticker does not wait for the interval
TimeTrigger_early(w, at) == w.pending_results > 0

\* _auto_flush_loop, lines 136-139
TimeTrigger(w, at) ==
    at - w.last_flush >= flush_interval /\ w.pending_results > 0

\* add_check_result, lines 120-128
add_check_result(w, at, outcome) ==
    LET appended == [w EXCEPT !.pending_results = @ + 1]
    IN IF SizeTrigger(appended.pending_results)
       THEN flush(appended, at, outcome)
       ELSE Untouched(appended)

\* one iteration of _auto_flush_loop, lines 133-141
auto_flush(w, at, outcome) ==
    IF TimeTrigger(w, at) THEN flush(w, at, outcome) ELSE Untouched(w)

\* force_flush, lines 188-193
force_flush(w, at, outcome) ==
    IF w.pending_results > 0 THEN flush(w, at, outcome) ELSE Untouched(w)

\* the writer after a call, with the history of the call; an outcome of
\* the store other than "ok" is chosen only for a call that reaches it
WriterCall(op, r, outcome) ==
    /\ outcome # "ok" => r.tried
    /\ pending_results' = r.writer.pending_results
    /\ last_flush' = r.writer.last_flush
    /\ total_batches' = r.writer.total_batches
    /\ total_records' = r.writer.total_records
    /\ check_results' = r.writer.check_results
    /\ writer_log' = [op |-> op, outcome |-> outcome, raised |-> r.raised]

\* _store_check_result, lines 704-715: the engine hands a result to the
\* batch writer and logs an exception that comes out of it
store_check_result(outcome) ==
    /\ WriterCall("add", add_check_result(Writer, now, outcome), outcome)
    /\ UNCHANGED flush_thread

\* ------------------------------------------------- _process_check_result

\* lines 626-630
UpdateStatistics(st, success) ==
    [st EXCEPT !.total_checks = @ + 1,
               !.successful_checks = IF success THEN @ + 1 ELSE @,
               !.failed_checks = IF success THEN @ ELSE @ + 1]

\* lines 655-656 and _handle_status_change, lines 829-834: the calls of the
\* registered on_status_change callback, as (old, new) pairs
handle_status_change_callbacks(old_status, new_status) ==
    IF StatusChanged(old_status, new_status)
    THEN << <<old_status, new_status>> >>
    ELSE << >>

\* the end of _process_check_result for device d (lines 658-702), with the
\* history of the completed call
Complete(d, device, ctx, counted, attempts, recovery, recent, fault, cb_raises) ==
    LET r == FinishResult(device, ctx.new_status, ctx.success,
                          ctx.response_time, fault, cb_raises)
        entered_both == BothFailed(r.device) /\ ~ctx.was_both_failed
        failed == (IF fault = "ok" THEN 0 ELSE 1) + (IF cb_raises THEN 1 ELSE 0)
        status_cbs == handle_status_change_callbacks(ctx.old_status, ctx.new_status)
    IN /\ cb_raises => (fault # "no_session" /\ r.manual_alert)
       /\ faults + failed <= MaxFaults
       /\ faults' = faults + failed
       /\ devices' = [devices EXCEPT ![d] = r.device]
       /\ db' = IF r.persisted
                THEN [db EXCEPT ![d] = persist_device_updates(@,
                        ApplyStatus(device, ctx.new_status, ctx.response_time))]
                ELSE db
       /\ obs' = [obs EXCEPT
                ![d].cb_manual = IF r.manual_alert THEN @ + 1 ELSE @,
                ![d].cb_status_change = @ + Len(status_cbs),
                ![d].both_failed_entries = IF entered_both THEN @ + 1 ELSE @,
                ![d].entry_skipped =
                    IF recovery = "cooldown" THEN TRUE
                    ELSE IF ctx.new_status # "degraded" \/ recovery # "none"
                    THEN FALSE ELSE @,
                ![d].degraded_entries =
                    IF ~counted /\ IsDegradedEntry(ctx.old_status, ctx.new_status)
                    THEN @ + 1 ELSE @]
       /\ lastProc' = [dev |-> d, old_status |-> ctx.old_status,
                       new_status |-> ctx.new_status,
                       attempts |-> attempts, recovery |-> recovery,
                       recent_attempt |-> recent,
                       responsive |-> (r.device.ping_status = "success"
                                       \/ r.device.web_status = "success"),
                       manual |-> r.device.requires_manual_intervention,
                       aborted |-> r.aborted, status_cbs |-> status_cbs,
                       fault |-> fault]

\* monitoring thread m processes the result of one check of device d
\* (_process_check_result, also reached through _handle_check_failure).
\* record_check (line 634) needs performance_metrics.lock: while another
\* thread holds it the handler waits there, the statistics already counted.
\* Of record_check the handler keeps the lock only: the windows and the
\* counts of the metrics, which nothing in the engine reads, are left to
\* the calls of record_check in SpecMetrics.
\* When the status change triggers auto-recovery the thread goes on inside
\* _attempt_auto_recovery (AcquireRecoveryLock ... ) and ends the handler
\* in FinishProcess; otherwise the handler runs to its end here.
process_check_result(m, d, check_type, success, response_time, fault, cb_raises) ==
    /\ mon[m].pc = "idle"
    /\ d \in DOMAIN devices
    /\ check_type \in EnabledChecks(devices[d])
    /\ statistics' = UpdateStatistics(statistics, success)
    /\ IF metrics_lock # NoThread
       THEN /\ mon' = [mon EXCEPT ![m] =
                        [IdleMon EXCEPT !.pc = "record_check", !.dev = d]]
            /\ fault = "ok" /\ ~cb_raises
            /\ UNCHANGED <<devices, pending_results, db, rec, obs, faults,
                           lastProc, writerVars>>
       ELSE
       /\ store_check_result("ok")
       /\ LET signalled == UpdateSignals(devices[d], check_type, success)
              old_status == devices[d].current_status
              new_status == determine_device_status(signalled)
              ctx == [pc |-> "recovery", dev |-> d, check_type |-> check_type,
                      success |-> success, response_time |-> response_time,
                      old_status |-> old_status, new_status |-> new_status,
                      was_both_failed |-> BothFailed(devices[d])]
          IN IF TriggersRecovery(old_status, new_status, signalled,
                                 auto_recovery_service)
             THEN /\ devices' = [devices EXCEPT ![d] = signalled]
                  /\ mon' = [mon EXCEPT ![m] = ctx]
                  /\ rec' = [rec EXCEPT ![m] =
                               [IdleRec EXCEPT !.pc = "acquire", !.dev = d]]
                  /\ fault = "ok" /\ ~cb_raises
                  /\ obs' = [obs EXCEPT ![d].degraded_entries =
                       IF IsDegradedEntry(old_status, new_status)
                       THEN @ + 1 ELSE @]
                  /\ UNCHANGED <<db, faults, lastProc>>
             ELSE /\ Complete(d, signalled, ctx, FALSE, 0, "none",
                              RecentAttempt(d), fault, cb_raises)
                  /\ UNCHANGED <<mon, rec>>
    /\ UNCHANGED <<running, last_check_times, auto_recovery_service, svcRest,
                   last_perf_log, recovery_attempts, recovery_lock, timers,
                   active_timers, now, attempt_log>>
    /\ UNCHANGED schedVars

\* monitoring thread m, which found the engine running, has run a task and
\* hands its result to the handler (the round is not looked at)
MonitorResult(m, d, check_type, success, response_time, fault, cb_raises) ==
    /\ running
    /\ loop[m].pc = "top"
    /\ process_check_result(m, d, check_type, success, response_time, fault,
                            cb_raises)
    /\ UNCHANGED lifeVars

\* monitoring thread m is back from _attempt_auto_recovery: the rest of
\* _handle_status_change and of _process_check_result
FinishProcess(m, fault, cb_raises) ==
    /\ mon[m].pc = "recovery"
    /\ rec[m].pc = "ret"
    /\ Complete(mon[m].dev, devices[mon[m].dev], mon[m], TRUE,
                IF rec[m].result = "cooldown" THEN 0 ELSE 1,
                rec[m].result, rec[m].recent, fault, cb_raises)
    /\ mon' = [mon EXCEPT ![m] = IdleMon]
    /\ rec' = [rec EXCEPT ![m] = IdleRec]
    /\ UNCHANGED <<running, last_check_times, auto_recovery_service, svcVars,
                   recovery_attempts, recovery_lock, timers, active_timers,
                   statistics, pending_results, now, attempt_log>>
    /\ UNCHANGED schedVars
    /\ UNCHANGED lifeVars


\* ------------------------------------------------ _attempt_auto_recovery
\* line 916-917: the thread takes the lock and reads the last attempt
AcquireRecoveryLock(t) ==
    /\ rec[t].pc = "acquire"
    /\ LockFree(recovery_lock)
    /\ recovery_lock' = t
    /\ LET d == rec[t].dev
       IN rec' = [rec EXCEPT ![t].pc = "cs",
                    ![t].has_last = d \in DOMAIN recovery_attempts,
                    ![t].last = IF d \in DOMAIN recovery_attempts
                                THEN recovery_attempts[d] ELSE 0]
    /\ UNCHANGED <<running, devices, last_check_times, auto_recovery_service, svcVars,
                   recovery_attempts, timers, active_timers, statistics,
                   pending_results, db, now, mon, attempt_log, obs, faults, lastProc>>
    /\ UNCHANGED schedVars
    /\ UNCHANGED lifeVars

\* lines 919-934: inside the lock, return when the cooldown is active, else
\* record the attempt; the lock is released and attempt_recovery is called
CheckCooldown(t) ==
    /\ rec[t].pc = "cs"
    /\ recovery_lock' = IF recovery_lock = t THEN NoThread ELSE recovery_lock
    /\ LET d == rec[t].dev
       IN IF rec[t].has_last /\ CooldownActive(now, rec[t].last)
          THEN /\ rec' = [rec EXCEPT ![t].pc = "ret",
                            ![t].result = "cooldown",
                            ![t].recent = RecentAttempt(d)]
               /\ UNCHANGED <<recovery_attempts, attempt_log>>
          ELSE /\ recovery_attempts' =
                    [k \in DOMAIN recovery_attempts \cup {d} |->
                        IF k = d THEN now ELSE recovery_attempts[k]]
               /\ attempt_log' = [attempt_log EXCEPT ![d] =
                    Append(@, [at |-> now, thread |-> t])]
               /\ rec' = [rec EXCEPT ![t].pc = "call",
                            ![t].recent = RecentAttempt(d)]
    /\ UNCHANGED <<running, devices, last_check_times, auto_recovery_service, svcVars,
                   timers, active_timers, statistics, pending_results, db,
                   now, mon, obs, faults, lastProc>>
    /\ UNCHANGED schedVars
    /\ UNCHANGED lifeVars

\* lines 936-977: attempt_recovery returns (success, message) or raises
RecoveryReturns(t, outcome) ==
    /\ rec[t].pc = "call"
    /\ LET d == rec[t].dev
       IN /\ d \in DOMAIN devices
          /\ IF outcome = "success"
             THEN /\ FreeTimers # {}
                  /\ devices' = [devices EXCEPT
                        ![d].requires_manual_intervention = FALSE]
                  /\ timers' = schedule_timer(timers, RecheckDelay, "recheck", d)
                  /\ active_timers' = active_timers \cup {NewTimer}
                  /\ obs' = [obs EXCEPT ![d].recheck_timers = @ + 1,
                                        ![d].recovery_successes = @ + 1,
                                        ![d].cb_recovery_success = @ + 1]
             ELSE /\ devices' = [devices EXCEPT
                        ![d].requires_manual_intervention = TRUE]
                  /\ obs' = [obs EXCEPT ![d].cb_recovery_failure =
                        IF outcome = "failure" THEN @ + 1 ELSE @]
                  /\ UNCHANGED <<timers, active_timers>>
    /\ rec' = [rec EXCEPT ![t].pc = "ret", ![t].result = outcome]
    /\ UNCHANGED <<running, last_check_times, auto_recovery_service, svcVars,
                   recovery_attempts, recovery_lock, statistics,
                   pending_results, db, now, mon, attempt_log, faults, lastProc>>
    /\ UNCHANGED schedVars
    /\ UNCHANGED lifeVars

\* force_immediate_check(device_id)
force_immediate_check(lct, d) ==
    IF d \in DOMAIN lct THEN [lct EXCEPT ![d] = now - ForceRewind] ELSE lct

\* force_immediate_check(None): every registered device
force_immediate_check_all(lct, devs) ==
    [d \in DOMAIN lct \cup DOMAIN devs |->
        IF d \in DOMAIN devs THEN now - ForceRewind ELSE lct[d]]

\* a client calls force_immediate_check(target); target 0 stands for None
ForceImmediateCheck(target) ==
    /\ running
    /\ LET hit == IF target = 0 THEN DOMAIN devices
                  ELSE {target} \cap DOMAIN last_check_times
       IN /\ hit # {}
          /\ last_check_times' =
                IF target = 0
                THEN force_immediate_check_all(last_check_times, devices)
                ELSE force_immediate_check(last_check_times, target)
          /\ sched' = [sched EXCEPT
                !.forced = @ \cup hit,
                !.forced_again = @ \cup (hit \cap sched.forced)]
    /\ UNCHANGED <<running, devices, auto_recovery_service, svcVars, recovery_attempts,
                   recovery_lock, timers, active_timers, statistics,
                   pending_results, db, now, mon, rec, attempt_log, obs,
                   faults, lastProc, task_queue>>
    /\ UNCHANGED lifeVars

\* stop() has carried out its steps up to the final log_summary() and the
\* engine has not been started again
StopDone == stop_pc \in {"get_throughput", "returned"} /\ ~running

\* a pending Timer fires (threading.Timer runs wrapper() once its delay has
\* passed): the re-check timer runs force_immediate_check and deregisters
\* itself; the startup timer enters _attempt_auto_recovery
FireTimer(i) ==
    /\ timers[i].state = "pending"
    /\ now >= timers[i].due
    /\ IF timers[i].kind = "recheck"
       THEN /\ last_check_times' =
                    force_immediate_check(last_check_times, timers[i].dev)
            /\ timers' = [timers EXCEPT ![i] = FreeTimer]
            /\ active_timers' = active_timers \ {i}
            /\ sched' = [sched EXCEPT !.rechecked = @ \cup {timers[i].dev}]
            /\ UNCHANGED rec
       ELSE /\ timers' = [timers EXCEPT ![i].state = "running"]
            /\ rec' = [rec EXCEPT ![i] =
                        [IdleRec EXCEPT !.pc = "acquire", !.dev = timers[i].dev]]
            /\ UNCHANGED <<last_check_times, active_timers, sched>>
    /\ UNCHANGED <<running, devices, auto_recovery_service, svcVars, recovery_attempts,
                   recovery_lock, statistics, pending_results, db, now, mon,
                   attempt_log, obs, faults, lastProc, task_queue>>
    /\ life' = [life EXCEPT !.late_timers = IF StopDone THEN @ + 1 ELSE @]
    /\ UNCHANGED lifeRest
    /\ UNCHANGED loop

\* _schedule_timer.wrapper, finally: the Timer thread is back from
\* _attempt_auto_recovery and removes its Timer from _active_timers
TimerExit(i) ==
    /\ i \in TimerIds
    /\ rec[i].pc = "ret"
    /\ timers' = [timers EXCEPT ![i] = FreeTimer]
    /\ active_timers' = active_timers \ {i}
    /\ rec' = [rec EXCEPT ![i] = IdleRec]
    /\ UNCHANGED <<running, devices, last_check_times, auto_recovery_service, svcVars,
                   recovery_attempts, recovery_lock, statistics,
                   pending_results, db, now, mon, attempt_log, obs, faults, lastProc>>
    /\ UNCHANGED schedVars
    /\ UNCHANGED lifeVars

\* time passes
Tick(delta) ==
    /\ now + delta <= MaxTime
    /\ now' = now + delta
    /\ UNCHANGED <<running, devices, last_check_times, auto_recovery_service, svcVars,
                   recovery_attempts, recovery_lock, timers, active_timers,
                   statistics, pending_results, db, mon, rec, attempt_log,
                   obs, faults, lastProc>>
    /\ UNCHANGED schedVars
    /\ UNCHANGED lifeVars

\* variant: a lock its holder may take again
CanAcquire_reentrant(holder, t) == holder = NoThread \/ holder = t

\* threading.Lock: acquire by thread t succeeds only on a free lock
CanAcquire(holder, t) == holder = NoThread

\* ------------------------------------------------------------- scheduler
\* _calculate_priority
calculate_priority(device) ==
    IF device.current_status = "offline" THEN 1
    ELSE IF device.current_status = "degraded" THEN 3
    ELSE 5

\* _schedule_device_checks: one CheckTask per enabled check kind, in the
\* order of the method's if statements
schedule_device_checks(queue, d, device) ==
    LET kinds == SelectSeq(KindOrder, LAMBDA k : k \in EnabledChecks(device))
    IN queue \o [i \in 1..Len(kinds) |->
                    [priority |-> calculate_priority(device), dev |-> d,
                     check_type |-> kinds[i]]]

\* variant: a device is due only after more than its interval
Due_late(device, lct, d, t) ==
    d \notin DOMAIN lct \/ t - lct[d] > device.check_interval

\* _scheduler_loop, line 355: the device is due
Due(device, lct, d, t) ==
    d \notin DOMAIN lct \/ t - lct[d] >= device.check_interval

\* the devices in S in the order of self.devices.values()
RECURSIVE ScheduleAll(_, _, _)
ScheduleAll(queue, S, devs) ==
    IF S = {} THEN queue
    ELSE LET d == CHOOSE e \in S : \A f \in S : e <= f
         IN ScheduleAll(schedule_device_checks(queue, d, devs[d]),
                        S \ {d}, devs)

\* variant: the paused flag is not looked at
MayBegin_unpaused(is_running, is_paused) == is_running

\* the tests at the top of both loops (lines 338-343 and 497-501): while
\* self.running, and if self.paused: sleep and continue
MayBegin(is_running, is_paused) == is_running /\ ~is_paused

\* _scheduler_loop, lines 338-343: the scheduler thread finds the engine
\* running and not paused and goes on to a pass over the devices
scheduler_test ==
    /\ sched_pc = "test"
    /\ MayBegin(running, paused)
    /\ sched.ticks < MaxTicks
    /\ sched_pc' = "pass"
    /\ UNCHANGED <<engineVars, threadVars, histVars>>
    /\ UNCHANGED <<paused, executor, executor_shutdown, monitor_thread, loop,
                   stop_pc, metrics_lock, life>>

\* one pass of the _scheduler_loop body (lines 345-370) at current_time =
\* now: the checks that are due are scheduled, and every 5 minutes the
\* thread goes on to performance_metrics.log_summary() (lines 360-363; the
\* test of the queue size, lines 365-370, only logs)
scheduler_tick ==
    /\ sched_pc = "pass"
    /\ sched.ticks < MaxTicks
    /\ LET due == {d \in DOMAIN devices :
                    /\ devices[d].enabled
                    /\ Due(devices[d], last_check_times, d, now)}
       IN /\ task_queue' = ScheduleAll(task_queue, due, devices)
          /\ last_check_times' =
                [d \in DOMAIN last_check_times \cup due |->
                    IF d \in due THEN now ELSE last_check_times[d]]
    /\ sched' = [ticks |-> sched.ticks + 1, forced |-> {},
                 forced_again |-> {}, rechecked |-> {}]
    /\ UNCHANGED <<running, devices, auto_recovery_service, svcVars, recovery_attempts,
                   recovery_lock, timers, active_timers, statistics,
                   pending_results, db, now, mon, rec, attempt_log, obs,
                   faults, lastProc>>
    /\ sched_pc' = IF now - last_perf_log >= PerfLogInterval
                   THEN "log_summary" ELSE "test"
    /\ UNCHANGED <<paused, executor, executor_shutdown, monitor_thread, loop,
                   stop_pc, metrics_lock, life>>

\* line 362: the periodic performance_metrics.log_summary(). get_summary
\* takes performance_metrics.lock (line 302) and, holding it, calls
\* get_throughput (line 306), which takes the same lock (line 273); the
\* thread goes back to the top of its loop when that second acquire
\* succeeds
scheduler_log_summary ==
    /\ sched_pc = "log_summary"
    /\ CanAcquire(metrics_lock, SchedThread)
    /\ IF CanAcquire(SchedThread, SchedThread)
       THEN metrics_lock' = NoThread /\ sched_pc' = "test"
       ELSE metrics_lock' = SchedThread /\ sched_pc' = "get_throughput"
    /\ UNCHANGED <<engineVars, threadVars, histVars>>
    /\ UNCHANGED <<paused, executor, executor_shutdown, monitor_thread, loop,
                   stop_pc, life>>

\* ------------------------------------------------------ pause / resume
\* pause()
pause ==
    /\ running
    /\ ~paused
    /\ life.pauses < MaxPauses
    /\ paused' = TRUE
    /\ life' = [life EXCEPT !.pauses = @ + 1]
    /\ UNCHANGED <<engineVars, threadVars, histVars>>
    /\ UNCHANGED <<executor, executor_shutdown, monitor_thread, loop, sched_pc,
                   stop_pc, metrics_lock>>

\* resume()
resume ==
    /\ paused
    /\ paused' = FALSE
    /\ UNCHANGED <<engineVars, threadVars, histVars>>
    /\ UNCHANGED <<executor, executor_shutdown, monitor_thread, loop, sched_pc,
                   stop_pc, metrics_lock, life>>

\* ------------------------------------------------------ _monitoring_loop
\* a task taken from the queue, with the state of its future: "dequeued",
\* "queued" when it was submitted and waits in the pool for a worker,
\* "running" once a worker has taken it, "done" when _execute_check has
\* returned, "cancelled" when Future.cancel() took it out of the pool's
\* queue (cancelled_by: "stop" for the shutdown of the pool, "bound" for
\* the handler of the round bound), "dropped" when it was never
\* submitted. History: yielded (as_completed
\* has handed it to the loop), results (results processed for the task),
\* at_bound (the probe was still running when the round bound was hit),
\* overtook (an older entry with a larger priority number stayed behind),
\* probe (what the probe did: "returned" a result dict or "raise")
NewFuture(task) ==
    [task |-> task, state |-> "dequeued", yielded |-> FALSE, results |-> 0,
     at_bound |-> FALSE, overtook |-> FALSE, probe |-> "none",
     cancelled_by |-> "none"]

\* variant: the queue hands out its oldest entry
Smallest_fifo(queue) == {i \in 1..Len(queue) : i = 1}

\* PriorityQueue.get_nowait on (priority, task) entries: the entries a get
\* may return are those with the smallest priority number
Smallest(queue) ==
    {i \in 1..Len(queue) :
        \A j \in 1..Len(queue) : queue[i].priority <= queue[j].priority}

RemoveAt(queue, i) == SubSeq(queue, 1, i - 1) \o SubSeq(queue, i + 1, Len(queue))

\* futures of the round of thread m whose probe is still running
Outstanding(m) ==
    {i \in 1..Len(loop[m].futs) : loop[m].futs[i].state = "running"}

\* the task was submitted: its future is in future_to_task
Submitted(fut) == fut.state \in {"queued", "running", "done", "cancelled"}

\* variant: a cancelled future does not count as done
done_finished_only(fut) == fut.state = "done"

\* Future.done(): the future was cancelled or finished executing
done(fut) == fut.state \in {"done", "cancelled"}

\* futures as_completed has still to yield; a future cancelled while it
\* waited in the pool's queue is never handed to the waiter
Unyielded(m) ==
    {i \in 1..Len(loop[m].futs) :
        /\ Submitted(loop[m].futs[i])
        /\ ~loop[m].futs[i].yielded}

\* futures the except TimeoutError handler has still to visit and that
\* are not done
ToFail(m) ==
    {i \in 1..Len(loop[m].futs) :
        /\ Submitted(loop[m].futs[i])
        /\ ~done(loop[m].futs[i])
        /\ i >= loop[m].idx}

\* the round of thread m is over: as_completed is exhausted, or the
\* handler of the round bound has visited every future
RoundOver(m) ==
    \/ loop[m].pc = "wait" /\ Unyielded(m) = {}
    \/ loop[m].pc = "timeout" /\ ToFail(m) = {}

\* thread m is at the top of the while loop (line 497)
AtTop(m) ==
    /\ mon[m].pc = "idle"
    /\ loop[m].pc = "top" \/ RoundOver(m)

\* lines 497-507: the thread finds the engine running and not paused and
\* goes on to take tasks from the queue (an iteration that finds the queue
\* empty sleeps 0.1 s and changes nothing)
loop_test(m) ==
    /\ AtTop(m)
    /\ MayBegin(running, paused)
    /\ task_queue # << >>
    /\ loop' = [loop EXCEPT ![m] = [DeadLoop EXCEPT !.pc = "dequeue"]]
    /\ UNCHANGED <<engineVars, threadVars, histVars, lifeRest>>

\* line 497: the thread finds self.running false and ends
loop_exit(m) ==
    /\ AtTop(m)
    /\ ~running
    /\ loop' = [loop EXCEPT ![m] = DeadLoop]
    /\ UNCHANGED <<engineVars, threadVars, histVars, lifeRest>>

\* lines 507-512: one get_nowait
loop_dequeue(m, i) ==
    /\ loop[m].pc = "dequeue"
    /\ Len(loop[m].futs) < max_workers
    /\ i \in Smallest(task_queue)
    /\ task_queue' = RemoveAt(task_queue, i)
    /\ loop' = [loop EXCEPT ![m].futs = Append(@,
            [NewFuture(task_queue[i]) EXCEPT !.overtook =
                \E j \in 1..(i - 1) :
                    task_queue[j].priority > task_queue[i].priority])]
    /\ UNCHANGED <<queueRest, threadVars, attempt_log, obs, faults, lastProc,
                   sched, lifeRest>>

\* lines 518-531: the tasks are submitted unless the engine has been
\* stopped or the pool refuses them (RuntimeError); as_completed starts
loop_submit(m) ==
    /\ loop[m].pc = "dequeue"
    /\ loop[m].futs # << >>
    /\ task_queue = << >> \/ Len(loop[m].futs) = max_workers
    /\ LET accepted == running /\ executor = "live"
       IN /\ loop' = [loop EXCEPT ![m].pc = "wait", ![m].since = now,
                ![m].futs = [i \in 1..Len(@) |->
                    [@[i] EXCEPT !.state =
                        IF accepted THEN "running" ELSE "dropped"]]]
          /\ life' = [life EXCEPT !.rejected =
                IF running /\ executor # "live" THEN @ + 1 ELSE @]
    /\ UNCHANGED <<engineVars, threadVars, histVars>>
    /\ UNCHANGED <<paused, executor, executor_shutdown, monitor_thread,
                   sched_pc, stop_pc, metrics_lock>>

\* lines 518-531 with a pool whose workers have not yet taken the work
\* items: executor.submit() puts each task into the pool's queue and
\* returns its future at once
loop_submit_queued(m) ==
    /\ loop[m].pc = "dequeue"
    /\ loop[m].futs # << >>
    /\ task_queue = << >> \/ Len(loop[m].futs) = max_workers
    /\ running /\ executor = "live"
    /\ loop' = [loop EXCEPT ![m].pc = "wait", ![m].since = now,
            ![m].futs = [i \in 1..Len(@) |-> [@[i] EXCEPT !.state = "queued"]]]
    /\ UNCHANGED <<engineVars, threadVars, histVars, lifeRest>>

\* a worker of the pool takes the work item of a future out of the pool's
\* queue and starts _execute_check
worker_starts(m, i) ==
    /\ i \in 1..Len(loop[m].futs)
    /\ loop[m].futs[i].state = "queued"
    /\ Cardinality(Outstanding(m)) < max_workers
    /\ loop' = [loop EXCEPT ![m].futs[i].state = "running"]
    /\ UNCHANGED <<engineVars, threadVars, histVars, lifeRest>>

\* variant: a failure of the probe is not turned into a failed result
execute_check_unguarded(task, probe, probe_success) ==
    [success |-> probe_success, error |-> FALSE, device_id |-> task.dev,
     check_type |-> task.check_type]

\* _execute_check, lines 579-611: the result dict of a task. A kind without
\* a registered probe raises ValueError inside the try, a probe may raise;
\* both end in the except branch, which returns a failed result
execute_check(task, probe, probe_success) ==
    IF task.check_type \notin check_services \/ probe = "raise"
    THEN [success |-> FALSE, error |-> TRUE, device_id |-> task.dev,
          check_type |-> task.check_type]
    ELSE [success |-> probe_success, error |-> FALSE, device_id |-> task.dev,
          check_type |-> task.check_type]

\* a worker of the pool comes to the end of _execute_check: the probe has
\* returned or raised
probe_returns(m, i, outcome) ==
    /\ i \in Outstanding(m)
    /\ loop' = [loop EXCEPT ![m].futs[i].state = "done",
                            ![m].futs[i].probe = outcome]
    /\ UNCHANGED <<engineVars, threadVars, histVars, lifeRest>>

\* lines 535-539: as_completed yields a finished future and the loop
\* processes its result
loop_result(m, i, success, response_time) ==
    /\ loop[m].pc = "wait"
    /\ i \in Unyielded(m)
    /\ loop[m].futs[i].state = "done"
    /\ LET result == execute_check(loop[m].futs[i].task,
                                   loop[m].futs[i].probe, success)
       IN process_check_result(m, loop[m].futs[i].task.dev,
                               result.check_type, result.success,
                               response_time, "ok", FALSE)
    /\ loop' = [loop EXCEPT ![m].futs[i].yielded = TRUE,
                            ![m].futs[i].results = @ + 1]
    /\ UNCHANGED lifeRest

\* lines 549-551: as_completed raises TimeoutError once the round bound has
\* passed with futures unfinished
round_timeout(m) ==
    /\ loop[m].pc = "wait"
    /\ mon[m].pc = "idle"
    /\ \E i \in Unyielded(m) : loop[m].futs[i].state # "done"
    /\ now - loop[m].since >= RoundBound
    /\ loop' = [loop EXCEPT ![m].pc = "timeout", ![m].idx = 1,
            ![m].futs = [i \in 1..Len(@) |->
                [@[i] EXCEPT !.at_bound = i \in Outstanding(m)]]]
    /\ UNCHANGED <<engineVars, threadVars, histVars, lifeRest>>

\* lines 552-557: the handler goes through future_to_task in submission
\* order; the next future that is not done gets _handle_check_failure (a
\* failed result with response time 0) and future.cancel(), which does not
\* stop a probe that is already running and takes a future that no worker
\* has taken out of the pool's queue
timeout_failure(m) ==
    /\ loop[m].pc = "timeout"
    /\ ToFail(m) # {}
    /\ LET i == CHOOSE j \in ToFail(m) : \A k \in ToFail(m) : j <= k
       IN /\ process_check_result(m, loop[m].futs[i].task.dev,
                                  loop[m].futs[i].task.check_type, FALSE, 0,
                                  "ok", FALSE)
          /\ loop' = [loop EXCEPT ![m].idx = i + 1,
                ![m].futs[i] =
                    IF @.state = "queued"
                    THEN [@ EXCEPT !.results = @ + 1, !.state = "cancelled",
                                   !.cancelled_by = "bound"]
                    ELSE [@ EXCEPT !.results = @ + 1]]
    /\ UNCHANGED lifeRest

\* lines 503-516: the queue was emptied by somebody else before the first
\* get; the thread sleeps 0.1 s and goes back to the top
loop_idle(m) ==
    /\ loop[m].pc = "dequeue"
    /\ loop[m].futs = << >>
    /\ task_queue = << >>
    /\ loop' = [loop EXCEPT ![m].pc = "top"]
    /\ UNCHANGED <<engineVars, threadVars, histVars, lifeRest>>

\* --------------------------------------------------------------- stop()
\* lines 254-260: stop() on a running engine
stop_begin ==
    /\ stop_pc \in {"none", "returned"}
    /\ running
    /\ running' = FALSE
    /\ paused' = FALSE
    /\ stop_pc' = "cancel"
    /\ UNCHANGED <<devices, last_check_times, auto_recovery_service, svcVars,
                   recovery_attempts, recovery_lock, timers, active_timers,
                   statistics, pending_results, db, now, task_queue>>
    /\ UNCHANGED <<threadVars, histVars>>
    /\ UNCHANGED <<executor, executor_shutdown, monitor_thread, loop, sched_pc,
                   metrics_lock, life>>

\* step 1, lines 265-269: every registered Timer is cancelled, which stops
\* the ones that have not fired yet, and the list is cleared
stop_cancel_timers ==
    /\ stop_pc = "cancel"
    /\ timers' = [i \in TimerIds |->
            IF i \in active_timers /\ timers[i].state = "pending"
            THEN FreeTimer ELSE timers[i]]
    /\ active_timers' = {}
    /\ stop_pc' = "join"
    /\ UNCHANGED <<running, devices, last_check_times, auto_recovery_service, svcVars,
                   recovery_attempts, recovery_lock, statistics,
                   pending_results, db, now, task_queue>>
    /\ UNCHANGED <<threadVars, histVars>>
    /\ UNCHANGED <<paused, executor, executor_shutdown, monitor_thread, loop,
                   sched_pc, metrics_lock, life>>

\* thread m needs more than the 2 s that join() waits: it is waiting for
\* probes or inside the handling of a result
Busy(m) == loop[m].pc \in {"top", "wait", "timeout"} /\ ~AtTop(m)

\* steps 2 and 3, lines 272-283: join(timeout=2.0) on the monitoring and
\* on the scheduler thread; the threads have ended or the wait has run out
stop_join ==
    /\ stop_pc = "join"
    /\ \/ monitor_thread = NoThread
       \/ loop[monitor_thread].pc = "dead"
       \/ Busy(monitor_thread)
    /\ sched_pc \in {"test"} \cup SchedBlocked
    /\ stop_pc' = "shutdown"
    /\ UNCHANGED <<engineVars, threadVars, histVars>>
    /\ UNCHANGED <<paused, executor, executor_shutdown, monitor_thread, loop,
                   sched_pc, metrics_lock, life>>

\* cancel_futures=True: the futures that wait in the pool's queue are
\* cancelled
cancel_futures(futs) ==
    [i \in 1..Len(futs) |->
        IF futs[i].state = "queued"
        THEN [futs[i] EXCEPT !.state = "cancelled", !.cancelled_by = "stop"]
        ELSE futs[i]]

\* step 4, line 290: executor.shutdown(wait=True, cancel_futures=True)
\* closes the pool to new submissions, cancels the futures no worker has
\* taken and waits for the running probes
stop_shutdown ==
    /\ stop_pc = "shutdown"
    /\ IF ~executor_shutdown
       THEN /\ executor' = "shutdown" /\ stop_pc' = "workers"
            /\ loop' = [m \in DOMAIN loop |->
                            [loop[m] EXCEPT !.futs = cancel_futures(@)]]
       ELSE executor' = executor /\ stop_pc' = "clear" /\ loop' = loop
    /\ UNCHANGED <<engineVars, threadVars, histVars>>
    /\ UNCHANGED <<paused, executor_shutdown, monitor_thread, sched_pc,
                   metrics_lock, life>>

\* step 4, lines 290-291: the running probes have returned, shutdown()
\* returns and the flag is set
stop_workers_done ==
    /\ stop_pc = "workers"
    /\ \A m \in MonitorThreads : Outstanding(m) = {}
    /\ executor_shutdown' = TRUE
    /\ stop_pc' = "clear"
    /\ UNCHANGED <<engineVars, threadVars, histVars>>
    /\ UNCHANGED <<paused, executor, monitor_thread, loop, sched_pc,
                   metrics_lock, life>>

\* steps 5 and 6, lines 296-305: the task queue is emptied and
\* batch_writer.force_flush() writes the pending results
stop_clear_and_flush ==
    /\ stop_pc = "clear"
    /\ task_queue' = << >>
    /\ WriterCall("force", force_flush(Writer, now, "ok"), "ok")
    /\ stop_pc' = "summary"
    /\ UNCHANGED <<flush_thread, svcRest, last_perf_log>>
    /\ UNCHANGED <<running, devices, last_check_times, auto_recovery_service,
                   recovery_attempts, recovery_lock, timers, active_timers,
                   statistics, db, now>>
    /\ UNCHANGED <<threadVars, histVars>>
    /\ UNCHANGED <<paused, executor, executor_shutdown, monitor_thread, loop,
                   sched_pc, metrics_lock, life>>

\* step 7, line 312: performance_metrics.log_summary(). get_summary takes
\* performance_metrics.lock and, holding it, calls get_throughput, which
\* takes the same lock; stop() returns when that second acquire succeeds
stop_log_summary ==
    /\ stop_pc = "summary"
    /\ CanAcquire(metrics_lock, StopThread)
    /\ IF CanAcquire(StopThread, StopThread)
       THEN metrics_lock' = NoThread /\ stop_pc' = "returned"
       ELSE metrics_lock' = StopThread /\ stop_pc' = "get_throughput"
    /\ UNCHANGED <<engineVars, threadVars, histVars>>
    /\ UNCHANGED <<paused, executor, executor_shutdown, monitor_thread, loop,
                   sched_pc, life>>

\* the steps of the threads and of the clock, besides the two that run the
\* end of _process_check_result
Steps ==
    \/ start
    \/ \E t \in Threads : AcquireRecoveryLock(t)
    \/ \E t \in Threads : CheckCooldown(t)
    \/ \E t \in Threads, o \in RecoveryOutcomes : RecoveryReturns(t, o)
    \/ \E i \in TimerIds : FireTimer(i)
    \/ \E i \in TimerIds : TimerExit(i)

\* one run of the engine in which the store and the callbacks do not fail
Next ==
    \/ Steps
    \/ \E delta \in TimeSteps : Tick(delta)
    \/ /\ statistics.total_checks < MaxChecks
       /\ \E d \in Devices, k \in CheckTypes, s \in BOOLEAN,
             rt \in ResponseTimes :
                MonitorResult(MonitorThread, d, k, s, rt, "ok", FALSE)
    \/ FinishProcess(MonitorThread, "ok", FALSE)

Spec == Init /\ [][Next]_vars

\* one run of the engine in which the store and the registered
\* on_recovery_failure callback may fail
NextFaults ==
    \/ Steps
    \/ \E delta \in TimeSteps : Tick(delta)
    \/ /\ statistics.total_checks < MaxChecksSmall
       /\ \E d \in Devices, k \in CheckTypes, s \in BOOLEAN,
             rt \in ResponseTimes, f \in StoreFaults, c \in BOOLEAN :
                MonitorResult(MonitorThread, d, k, s, rt, f, c)
    \/ \E f \in StoreFaults, c \in BOOLEAN : FinishProcess(MonitorThread, f, c)

SpecFaults == Init /\ [][NextFaults]_vars

\* the scheduler thread, the timers and the clients of
\* force_immediate_check, while no check result is being processed
NextSched ==
    \/ Steps
    \/ \E delta \in TimeSteps : Tick(delta)
    \/ scheduler_test
    \/ scheduler_tick
    \/ scheduler_log_summary
    \/ \E target \in Devices \cup {0} : ForceImmediateCheck(target)

SpecSched == Init /\ [][NextSched]_vars

\* an engine without a recovery service whose devices are checked every
\* hour
InitLoop ==
    /\ Init
    /\ ~auto_recovery_service
    /\ db[1].check_interval = 3600
    /\ db[1].ping_enabled /\ db[1].http_enabled /\ ~db[1].ssh_enabled

\* an engine without a recovery service and with two devices
InitQueue ==
    /\ InitEngine
    /\ auto_recovery_service = FALSE
    /\ db \in TwoDeviceStores

\* the steps of the monitoring threads and of the pool's workers up to
\* the end of the probes
LoopSteps ==
    \/ \E m \in MonitorThreads : loop_test(m)
    \/ \E m \in MonitorThreads, i \in QueueSlots : loop_dequeue(m, i)
    \/ \E m \in MonitorThreads : loop_submit(m)
    \/ \E m \in MonitorThreads, i \in FutureIds :
            probe_returns(m, i, "returned")

\* as_completed hands a result to the loop
LoopResults ==
    /\ statistics.total_checks < MaxChecks
    /\ \E m \in MonitorThreads, i \in FutureIds, s \in BOOLEAN :
            loop_result(m, i, s, QuickResponse)

\* the scheduler thread and the monitoring thread of an engine with two
\* devices
NextQueue ==
    \/ start
    \/ scheduler_test
    \/ scheduler_tick
    \/ LoopSteps
    \/ LoopResults

SpecQueue == InitQueue /\ [][NextQueue]_vars

\* an engine without a recovery service whose device has ping, HTTP and
\* SNMP checks enabled
InitProbes ==
    /\ InitEngine
    /\ auto_recovery_service = FALSE
    /\ \E f \in OneDeviceStores :
        /\ f[1].check_interval = 3600
        /\ f[1].ping_enabled /\ f[1].http_enabled /\ ~f[1].ssh_enabled
        /\ db = [f EXCEPT ![1].snmp_enabled = TRUE]

\* the scheduler thread and the monitoring thread, with probes that return
\* or raise
NextProbes ==
    \/ start
    \/ scheduler_test
    \/ scheduler_tick
    \/ \E m \in MonitorThreads : loop_test(m)
    \/ \E m \in MonitorThreads, i \in QueueSlots : loop_dequeue(m, i)
    \/ \E m \in MonitorThreads : loop_submit(m)
    \/ \E m \in MonitorThreads, i \in FutureIds, o \in ProbeOutcomes :
            probe_returns(m, i, o)
    \/ LoopResults

SpecProbes == InitProbes /\ [][NextProbes]_vars

\* the scheduler thread and the monitoring thread, with clients that call
\* pause() and resume()
NextPause ==
    \/ start
    \/ scheduler_test
    \/ scheduler_tick
    \/ pause
    \/ resume
    \/ LoopSteps
    \/ LoopResults

SpecPause == InitLoop /\ [][NextPause]_vars

\* the steps of stop()
StopSteps ==
    \/ stop_begin
    \/ stop_cancel_timers
    \/ stop_join
    \/ stop_shutdown
    \/ stop_workers_done
    \/ stop_clear_and_flush
    \/ stop_log_summary

\* start(), the timers and the recoveries they run, and stop() called by
\* a client while no check is under way
NextStop ==
    \/ Steps
    \/ \E delta \in TimeSteps : Tick(delta)
    \/ \E m \in MonitorThreads : loop_exit(m)
    \/ StopSteps

SpecStop == Init /\ [][NextStop]_vars

\* an engine without a recovery service whose device is checked by ping only
InitRestart ==
    /\ Init
    /\ auto_recovery_service = FALSE
    /\ db[1].device_type = "generic"
    /\ db[1].ping_enabled /\ ~db[1].http_enabled /\ ~db[1].ssh_enabled

\* as_completed hands a result to the loop, in the runs with restarts
FewLoopResults ==
    /\ statistics.total_checks < MaxChecksSmall
    /\ \E m \in MonitorThreads, i \in FutureIds, s \in BOOLEAN :
            loop_result(m, i, s, QuickResponse)

\* the life cycle with the polling rounds: start(), the scheduler and the
\* monitoring threads, stop() called by one client and start() called
\* again by another
NextRestart ==
    \/ start
    \/ scheduler_test
    \/ scheduler_tick
    \/ LoopSteps
    \/ FewLoopResults
    \/ \E m \in MonitorThreads : loop_idle(m)
    \/ \E m \in MonitorThreads : loop_exit(m)
    \/ StopSteps

SpecRestart == InitRestart /\ [][NextRestart]_vars

\* an engine with a recovery service and one device that can be recovered
InitOverlap ==
    /\ Init
    /\ auto_recovery_service
    /\ db[1].check_interval = 3600
    /\ db[1].ping_enabled /\ db[1].http_enabled /\ db[1].ssh_enabled
    /\ db[1].current_status = "online"

\* a monitoring thread hands a result to the handler
ThreadResults ==
    /\ statistics.total_checks < MaxChecks
    /\ \E m \in MonitorThreads, d \in Devices, k \in CheckTypes, s \in BOOLEAN :
            MonitorResult(m, d, k, s, QuickResponse, "ok", FALSE)

\* the life cycle with the recoveries: start(), the monitoring threads
\* that hand results to the handler and run the recoveries, stop() called
\* by one client and start() called again by another
NextOverlap ==
    \/ start
    \/ \E t \in Threads : AcquireRecoveryLock(t)
    \/ \E t \in Threads : CheckCooldown(t)
    \/ \E t \in Threads : RecoveryReturns(t, "failure")
    \/ ThreadResults
    \/ \E m \in MonitorThreads : FinishProcess(m, "ok", FALSE)
    \/ \E m \in MonitorThreads : loop_exit(m)
    \/ StopSteps

SpecOverlap == InitOverlap /\ [][NextOverlap]_vars

\* the scheduler thread and the monitoring thread while time passes and
\* probes are slow
NextRound ==
    \/ start
    \/ \E delta \in TimeSteps : Tick(delta)
    \/ scheduler_test
    \/ scheduler_tick
    \/ scheduler_log_summary
    \/ LoopSteps
    \/ LoopResults
    \/ \E m \in MonitorThreads : round_timeout(m)
    \/ /\ statistics.total_checks < MaxChecks
       /\ \E m \in MonitorThreads : timeout_failure(m)

SpecRound == InitLoop /\ [][NextRound]_vars

\* ------------------------------------------- calls on the batch writer
\* the services of performance_service.py next to an engine that was
\* constructed and not started
InitServices ==
    /\ InitRestart
    /\ db[1].current_status = "unknown"
    /\ db[1].check_interval = 3600

\* what the calls on the batch writer leave alone
writerFrame == <<running, devices, last_check_times, auto_recovery_service,
                 svcRest, last_perf_log, recovery_attempts, recovery_lock, timers,
                 active_timers, statistics, db, now, task_queue, threadVars,
                 attempt_log, obs, lastProc, sched, lifeVars>>

\* a failure of the store is counted
CountFault(outcome) ==
    /\ outcome # "ok" => faults < MaxFaults
    /\ faults' = IF outcome = "ok" THEN faults ELSE faults + 1

\* flushes are tried while the run has some left
CanTry(r) == r.tried => total_batches + faults < MaxBatches

\* a client hands a result to the batch writer
writer_add(outcome) ==
    /\ total_records + pending_results < MaxAdds
    /\ CanTry(add_check_result(Writer, now, outcome))
    /\ WriterCall("add", add_check_result(Writer, now, outcome), outcome)
    /\ CountFault(outcome)
    /\ UNCHANGED flush_thread
    /\ UNCHANGED writerFrame

\* the background thread wakes up from its sleep of 0.5 s and evaluates
\* the time trigger; an exception that leaves _flush ends the thread,
\* whose loop has no handler
auto_flush_loop(outcome) ==
    /\ flush_thread = "alive"
    /\ LET r == auto_flush(Writer, now, outcome)
       IN /\ WriterCall("tick", r, outcome)
          /\ CanTry(r)
          /\ flush_thread' = IF r.raised THEN "dead" ELSE "alive"
    /\ CountFault(outcome)
    /\ UNCHANGED writerFrame

\* a client calls force_flush()
writer_force_flush(outcome) ==
    /\ CanTry(force_flush(Writer, now, outcome))
    /\ WriterCall("force", force_flush(Writer, now, outcome), outcome)
    /\ CountFault(outcome)
    /\ UNCHANGED flush_thread
    /\ UNCHANGED writerFrame

\* a second passes on the clock of the batch writer
WriterTick ==
    /\ now < MaxWriterTime
    /\ Tick(1)

\* the batch writer with a store that accepts every write
NextWriter ==
    \/ writer_add("ok")
    \/ auto_flush_loop("ok")
    \/ writer_force_flush("ok")
    \/ WriterTick

SpecWriter == InitServices /\ [][NextWriter]_vars

\* the batch writer with a store that may fail
NextWriterFaults ==
    \/ \E o \in FlushOutcomes : writer_add(o)
    \/ \E o \in FlushOutcomes : auto_flush_loop(o)
    \/ \E o \in FlushOutcomes : writer_force_flush(o)
    \/ WriterTick

SpecWriterFaults == InitServices /\ [][NextWriterFaults]_vars

\* ------------------------------------------------------ reload_devices
\* what reload_devices and the edits of the store leave alone
reloadFrame == <<running, auto_recovery_service, svcVars, recovery_attempts,
                 recovery_lock, timers, active_timers, statistics,
                 pending_results, now, task_queue, threadVars, histVars,
                 paused, executor, executor_shutdown, monitor_thread, loop,
                 sched_pc, stop_pc, metrics_lock>>

\* reload_devices, lines 454-491, with a store that answers: the devices
\* that are no longer enabled are removed with their last-check times
\* (remove_device), a device that is already registered is replaced by the
\* object just loaded from its row (line 478), a new one goes through
\* add_device
reload_devices ==
    /\ life.reloads < MaxReloads
    /\ LET current_ids == DOMAIN devices
           new_ids == {d \in Devices : db[d].enabled}
       IN /\ devices' = [d \in new_ids |->
                IF d \in current_ids
                THEN LoadDevice(db[d])
                ELSE add_device(LoadDevice(db[d]))]
          /\ last_check_times' = [d \in new_ids |->
                IF d \in current_ids
                THEN last_check_times[d]
                ELSE now - ForceRewind]
    /\ life' = [life EXCEPT !.reloads = @ + 1]
    /\ UNCHANGED <<db, reloadFrame>>

\* a client of the store enables or disables the row of device d
set_enabled(d, enabled) ==
    /\ db[d].enabled # enabled
    /\ db' = [db EXCEPT ![d].enabled = enabled]
    /\ UNCHANGED <<devices, last_check_times, life, reloadFrame>>

\* an engine without a recovery service whose device has a ping and an
\* HTTP check
InitReload ==
    /\ InitEngine
    /\ auto_recovery_service = FALSE
    /\ db \in OneDeviceStores
    /\ db[1].device_type = "generic" /\ db[1].current_status = "unknown"
    /\ db[1].ping_enabled /\ db[1].http_enabled /\ ~db[1].ssh_enabled

\* the monitoring thread processes a result, in the runs with reloads
ReloadResults ==
    /\ statistics.total_checks < MaxChecksSmall
    /\ \E d \in Devices, k \in CheckTypes, s \in BOOLEAN :
            MonitorResult(MonitorThread, d, k, s, QuickResponse, "ok", FALSE)

\* results are processed while the store is edited and the registry is
\* reloaded
NextReload ==
    \/ start
    \/ ReloadResults
    \/ reload_devices
    \/ \E d \in Devices, e \in BOOLEAN : set_enabled(d, e)

SpecReload == InitReload /\ [][NextReload]_vars

\* -------------------------------------------------- PerformanceMetrics
\* the check kinds recorded in the runs of the metrics, and how many
\* checks one run records
MetricKindOne == "ping"
MetricKindTwo == "http"
MetricKinds == {MetricKindOne, MetricKindTwo}
MaxRecords == window_size + 1

\* variant: a full window refuses the new sample
append_maxlen_keep_oldest(window, x) ==
    IF Len(window) >= window_size THEN window ELSE Append(window, x)

\* deque(maxlen=window_size).append, line 218: a full window drops its
\* oldest sample
append_maxlen(window, x) ==
    IF Len(window) >= window_size
    THEN Append(Tail(window), x)
    ELSE Append(window, x)

\* sorted(times), line 253
RECURSIVE sorted(_)
sorted(times) ==
    IF times = << >> THEN << >>
    ELSE LET rest == sorted(Tail(times))
             x == Head(times)
             k == Cardinality({i \in 1..Len(rest) : rest[i] <= x})
         IN SubSeq(rest, 1, k) \o <<x>> \o SubSeq(rest, k + 1, Len(rest))

\* statistics.quantiles(data, n=n)[i - 1] of the standard library, with
\* its default method 'exclusive', for sorted data of two or more values:
\* the i-th of the n - 1 cut points, as the fraction <<numerator, n>>
quantiles(data, n, i) ==
    LET ld == Len(data)
        m == ld + 1
        j0 == (i * m) \div n
        j == IF j0 < 1 THEN 1 ELSE IF j0 > ld - 1 THEN ld - 1 ELSE j0
        delta == i * m - j * n
    IN <<data[j] * (n - delta) + data[j + 1] * delta, n>>

\* get_percentiles, lines 237-261, for a non-empty list of times
Percentiles(times) ==
    LET sorted_times == sorted(times)
        ld == Len(sorted_times)
    IN [p50 |-> IF ld >= 2 THEN quantiles(sorted_times, 2, 1)
                ELSE <<sorted_times[1], 1>>,
        p95 |-> IF ld >= 20 THEN quantiles(sorted_times, 20, 19)
                ELSE <<sorted_times[ld], 1>>,
        p99 |-> IF ld >= 100 THEN quantiles(sorted_times, 100, 99)
                ELSE <<sorted_times[ld], 1>>]

\* what the calls on the metrics leave alone
metricFrame == <<running, devices, last_check_times, auto_recovery_service,
                 writerVars, cacheVars, last_perf_log, recovery_attempts,
                 recovery_lock, timers, active_timers, statistics,
                 pending_results, db, now, task_queue, threadVars, histVars,
                 lifeVars>>

\* record_check, lines 222-235, under the lock of the metrics
record_check(check_type, response_time, success) ==
    /\ metrics_lock = NoThread
    /\ Len(recorded[MetricKindOne]) + Len(recorded[MetricKindTwo]) < MaxRecords
    /\ response_times' = [response_times EXCEPT ![check_type] =
                            append_maxlen(@, response_time)]
    /\ check_counts' = [check_counts EXCEPT ![check_type] = @ + 1]
    /\ success_counts' = [success_counts EXCEPT ![check_type] =
                            IF success THEN @ + 1 ELSE @]
    /\ recorded' = [recorded EXCEPT ![check_type] =
                      Append(@, [response_time |-> response_time,
                                 success |-> success])]
    /\ UNCHANGED <<percentiles, metricFrame>>

\* get_percentiles, lines 237-261, under the lock of the metrics; the
\* result is kept with the window it was computed from
get_percentiles(check_type) ==
    /\ metrics_lock = NoThread
    /\ LET times == response_times[check_type]
       IN percentiles' =
            IF times = << >>
            THEN [NoPercentiles EXCEPT !.check_type = check_type]
            ELSE [check_type |-> check_type, times |-> times,
                  p50 |-> Percentiles(times).p50,
                  p95 |-> Percentiles(times).p95,
                  p99 |-> Percentiles(times).p99]
    /\ UNCHANGED <<response_times, check_counts, success_counts, recorded,
                   metricFrame>>

\* clients of the metrics: checks are recorded and percentiles are asked for
NextMetrics ==
    \/ \E k \in MetricKinds, rt \in ResponseTimes, s \in BOOLEAN :
            record_check(k, rt, s)
    \/ \E k \in MetricKinds : get_percentiles(k)

SpecMetrics == InitServices /\ [][NextMetrics]_vars

\* get_summary, lines 300-319, called by client thread t (the performance
\* panel calls it at src/ui/performance_panel.py:134): the lock is taken at
\* line 302 and, while it is held, get_throughput takes it again at line
\* 273; the call returns when that second acquire succeeds, and until then
\* t holds the lock and waits for it
get_summary(t) ==
    /\ CanAcquire(metrics_lock, t)
    /\ metrics_lock' = IF CanAcquire(t, t) THEN NoThread ELSE t
    /\ UNCHANGED <<engineVars, threadVars, histVars>>
    /\ UNCHANGED <<paused, executor, executor_shutdown, monitor_thread, loop,
                   sched_pc, stop_pc, life>>

\* the engine runs, results are recorded, five minutes pass and the
\* performance panel asks for a summary
NextSummary ==
    \/ start
    \/ \E delta \in TimeSteps : Tick(delta)
    \/ scheduler_test
    \/ scheduler_tick
    \/ scheduler_log_summary
    \/ get_summary(PanelThread)
    \/ ReloadResults

SpecSummary == InitReload /\ [][NextSummary]_vars

\* --------------------------------------------------------- DeviceCache
\* variant: an entry is still served at the instant it expires
Fresh_inclusive(entry, at) == entry.cached /\ at <= entry.expires_at

\* get, lines 47-51: the id is in the cache and the entry has not expired
Fresh(entry, at) == entry.cached /\ at < entry.expires_at

\* what the calls on the cache leave alone
cacheFrame == <<running, devices, last_check_times, auto_recovery_service,
                writerVars, metricVars, last_perf_log, recovery_attempts,
                recovery_lock, timers, active_timers, statistics,
                pending_results, db, now, task_queue, threadVars, histVars,
                lifeVars>>

\* the call, as the history keeps it
CacheCall(op, d, hit) ==
    [op |-> op, dev |-> d, hit |-> hit, at |-> now, entry |-> cache[d]]

\* DeviceCache.get, lines 44-61
cache_get(d) ==
    /\ hits + misses < MaxGets
    /\ IF Fresh(cache[d], now)
       THEN /\ hits' = hits + 1
            /\ UNCHANGED <<cache, misses>>
       ELSE /\ cache' = [cache EXCEPT ![d] = NoEntry]
            /\ misses' = misses + 1
            /\ UNCHANGED hits
    /\ cache_log' = CacheCall("get", d, Fresh(cache[d], now))
    /\ UNCHANGED cacheFrame

\* DeviceCache.set, lines 63-71
cache_set(d) ==
    /\ cache' = [cache EXCEPT ![d] = [cached |-> TRUE,
                                      expires_at |-> now + ttl_seconds]]
    /\ cache_log' = CacheCall("set", d, FALSE)
    /\ UNCHANGED <<hits, misses, cacheFrame>>

\* DeviceCache.invalidate, lines 73-78
cache_invalidate(d) ==
    /\ cache' = [cache EXCEPT ![d] = NoEntry]
    /\ cache_log' = CacheCall("invalidate", d, FALSE)
    /\ UNCHANGED <<hits, misses, cacheFrame>>

\* DeviceCache.clear, lines 80-84
cache_clear ==
    /\ cache' = [d \in Devices |-> NoEntry]
    /\ cache_log' = [NoCacheCall EXCEPT !.op = "clear", !.at = now]
    /\ UNCHANGED <<hits, misses, cacheFrame>>

\* clients of the cache, while time passes
NextCache ==
    \/ \E d \in Devices : cache_get(d)
    \/ \E d \in Devices : cache_set(d)
    \/ \E d \in Devices : cache_invalidate(d)
    \/ cache_clear
    \/ \E delta \in TimeSteps : Tick(delta)

SpecCache == InitServices /\ [][NextCache]_vars

TypeOK ==
    /\ running \in BOOLEAN
    /\ DOMAIN devices \subseteq Devices
    /\ \A d \in DOMAIN devices :
        /\ devices[d].current_status \in Statuses
        /\ devices[d].ping_status \in SignalStatuses
        /\ devices[d].web_status \in SignalStatuses
    /\ recovery_lock \in Threads \cup {NoThread}
    /\ active_timers \subseteq TimerIds
    /\ now \in 0..MaxTime
    /\ pending_results \in Nat /\ check_results \in Nat
    /\ flush_thread \in {"alive", "dead"}
    /\ metrics_lock \in {NoThread, StopThread, SchedThread, PanelThread}
    /\ \A k \in CheckTypes : Len(response_times[k]) <= window_size
    /\ hits \in Nat /\ misses \in Nat
    /\ last_perf_log \in 0..MaxTime


\* ------------------------------------------ stop() and the pool's queue
\* the handler of the round bound fails a future that is not done
BoundFailures ==
    /\ statistics.total_checks < MaxChecksSmall
    /\ \E m \in MonitorThreads : timeout_failure(m)

\* start() called by a client that has not called stop() before
StartOnce == stop_pc = "none" /\ start

\* stop() called while futures wait in the pool's queue: the scheduler and
\* the monitoring thread, workers that take the submitted tasks at any
\* time, the round bound and the steps of stop()
NextCancel ==
    \/ StartOnce
    \/ \E delta \in TimeSteps : Tick(delta)
    \/ scheduler_test
    \/ scheduler_tick
    \/ scheduler_log_summary
    \/ \E m \in MonitorThreads : loop_test(m)
    \/ \E m \in MonitorThreads, i \in QueueSlots : loop_dequeue(m, i)
    \/ \E m \in MonitorThreads : loop_submit_queued(m)
    \/ \E m \in MonitorThreads, i \in FutureIds : worker_starts(m, i)
    \/ \E m \in MonitorThreads, i \in FutureIds :
            probe_returns(m, i, "returned")
    \/ FewLoopResults
    \/ \E m \in MonitorThreads : round_timeout(m)
    \/ BoundFailures
    \/ \E m \in MonitorThreads : loop_exit(m)
    \/ StopSteps

SpecCancel == InitServices /\ [][NextCancel]_vars


\* ------------------------------------------- a device that stays degraded
\* a monitoring thread hands a result to the handler, in the runs that
\* follow one device through its cooldown
LongResults ==
    /\ statistics.total_checks < MaxChecksLong
    /\ \E m \in MonitorThreads, d \in Devices, k \in CheckTypes, s \in BOOLEAN :
            MonitorResult(m, d, k, s, QuickResponse, "ok", FALSE)

\* an engine with a recovery service and one device that can be recovered:
\* results are processed, recoveries fail and the cooldown passes
NextCooldown ==
    \/ start
    \/ \E delta \in TimeSteps : Tick(delta)
    \/ \E t \in Threads : AcquireRecoveryLock(t)
    \/ \E t \in Threads : CheckCooldown(t)
    \/ \E t \in Threads : RecoveryReturns(t, "failure")
    \/ LongResults
    \/ \E m \in MonitorThreads : FinishProcess(m, "ok", FALSE)

SpecCooldown == InitOverlap /\ [][NextCooldown]_vars


\* -------------------------------------------------------- remove_device
\* the tasks of device d in the queue
QueuedFor(d) == {i \in 1..Len(task_queue) : task_queue[i].dev = d}

\* remove_device, lines 177-189, called by a client: the device and its
\* last-check time are deleted; the queue, the rounds under way and the
\* store are not touched, and the tasks keep their reference to the object
remove_device(d) ==
    /\ d \in DOMAIN devices
    /\ Cardinality(DOMAIN life.removed) < MaxRemoves
    /\ devices' = [e \in DOMAIN devices \ {d} |-> devices[e]]
    /\ last_check_times' =
            [e \in DOMAIN last_check_times \ {d} |-> last_check_times[e]]
    /\ life' = [life EXCEPT !.removed =
            [e \in DOMAIN @ \cup {d} |->
                IF e = d
                THEN [device |-> devices[d], row |-> db[d],
                      queued |-> Cardinality(QueuedFor(d)), processed |-> 0,
                      fetched |-> sched_pc = "pass"]
                ELSE @[e]]]
    /\ UNCHANGED <<running, auto_recovery_service, svcVars, recovery_attempts,
                   recovery_lock, timers, active_timers, statistics,
                   pending_results, db, now, task_queue, threadVars, histVars,
                   paused, executor, executor_shutdown, monitor_thread, loop,
                   sched_pc, stop_pc, metrics_lock>>

\* lines 347-358 in a pass whose for statement had handed out device d
\* before remove_device deleted it (the registry held nothing else):
\* last_check_times.get returns None, so the checks of the object are
\* scheduled and the entry is written again; the next step of the iteration
\* raises RuntimeError for the changed dict, which line 374 logs, and the
\* thread is back at the top of its loop
scheduler_tick_fetched(d) ==
    /\ sched_pc = "pass"
    /\ sched.ticks < MaxTicks
    /\ d \in DOMAIN life.removed
    /\ life.removed[d].fetched
    /\ DOMAIN devices = {}
    /\ life.removed[d].device.enabled
    /\ task_queue' = ScheduleAll(task_queue, {d},
                                 [e \in {d} |-> life.removed[d].device])
    /\ last_check_times' =
            [e \in DOMAIN last_check_times \cup {d} |->
                IF e = d THEN now ELSE last_check_times[e]]
    /\ sched' = [ticks |-> sched.ticks + 1, forced |-> {},
                 forced_again |-> {}, rechecked |-> {}]
    /\ life' = [life EXCEPT !.removed[d].fetched = FALSE]
    /\ sched_pc' = "test"
    /\ UNCHANGED <<running, devices, auto_recovery_service, svcVars,
                   recovery_attempts, recovery_lock, timers, active_timers,
                   statistics, pending_results, db, now, mon, rec,
                   attempt_log, obs, faults, lastProc>>
    /\ UNCHANGED <<paused, executor, executor_shutdown, monitor_thread, loop,
                   stop_pc, metrics_lock>>

\* lines 535-539 and _process_check_result for a task whose device has been
\* removed: the handler works on task.device, the object the task refers
\* to, and never looks at the registry; the statistics are counted, the
\* result goes to the batch writer, the object gets its signals, status
\* and counters, and _persist_device_updates writes the row with the
\* object's id (the device has no recovery service in these runs)
loop_result_removed(m, i, success, response_time) ==
    /\ loop[m].pc = "wait"
    /\ mon[m].pc = "idle"
    /\ i \in Unyielded(m)
    /\ loop[m].futs[i].state = "done"
    /\ metrics_lock = NoThread
    /\ LET fut == loop[m].futs[i]
           d == fut.task.dev
       IN /\ d \notin DOMAIN devices
          /\ d \in DOMAIN life.removed
          /\ LET result == execute_check(fut.task, fut.probe, success)
                 object == life.removed[d].device
                 signalled == UpdateSignals(object, result.check_type,
                                           result.success)
                 new_status == determine_device_status(signalled)
                 r == FinishResult(signalled, new_status, result.success,
                                   response_time, "ok", FALSE)
             IN /\ ~TriggersRecovery(object.current_status, new_status,
                                     signalled, auto_recovery_service)
                /\ statistics' = UpdateStatistics(statistics, result.success)
                /\ store_check_result("ok")
                /\ db' = [db EXCEPT ![d] = persist_device_updates(@,
                            ApplyStatus(signalled, new_status, response_time))]
                /\ life' = [life EXCEPT !.removed[d].device = r.device,
                                        !.removed[d].processed = @ + 1]
    /\ loop' = [loop EXCEPT ![m].futs[i].yielded = TRUE,
                            ![m].futs[i].results = @ + 1]
    /\ UNCHANGED <<running, devices, last_check_times, auto_recovery_service,
                   svcRest, last_perf_log, recovery_attempts, recovery_lock,
                   timers, active_timers, now, task_queue, threadVars,
                   histVars, paused, executor, executor_shutdown,
                   monitor_thread, sched_pc, stop_pc>>
    /\ UNCHANGED metrics_lock

\* as_completed hands the result of a removed device's task to the loop
RemovedResults ==
    /\ statistics.total_checks < MaxChecksSmall
    /\ \E m \in MonitorThreads, i \in FutureIds, s \in BOOLEAN :
            loop_result_removed(m, i, s, QuickResponse)

\* a client removes a device while the scheduler and the monitoring thread
\* run
NextRemove ==
    \/ start
    \/ scheduler_test
    \/ scheduler_tick
    \/ LoopSteps
    \/ FewLoopResults
    \/ RemovedResults
    \/ \E d \in Devices : remove_device(d)
    \/ \E d \in Devices : scheduler_tick_fetched(d)

SpecRemove == InitReload /\ [][NextRemove]_vars


\* ================================================================ claims
\* the monitoring thread is not inside _process_check_result for device d
Settled(d) ==
    \A m \in MonitorThreads : mon[m].pc = "idle" \/ mon[m].dev # d

\* C1: once _process_check_result has completed, a device whose ping_status
\* is 'failed' has current_status 'offline', whatever its web_status is
C1_PingFailedIsOffline ==
    \A d \in DOMAIN devices :
        (Settled(d) /\ devices[d].ping_status = "failed")
            => devices[d].current_status = "offline"

\* a ping failure was processed for a device whose web check succeeded
C1_Witness ==
    \E d \in DOMAIN devices :
        /\ lastProc.dev = d /\ Settled(d)
        /\ devices[d].ping_status = "failed"
        /\ devices[d].web_status = "success"
        /\ devices[d].current_status = "offline"

\* C2: once _process_check_result has completed, a device with a web check
\* enabled whose ping succeeded and whose web check failed is 'degraded'
C2_PingOkWebFailedIsDegraded ==
    \A d \in DOMAIN devices :
        ( /\ Settled(d)
          /\ devices[d].http_enabled \/ devices[d].https_enabled
          /\ devices[d].ping_status = "success"
          /\ devices[d].web_status = "failed" )
            => devices[d].current_status = "degraded"

\* a device went from offline to degraded when its ping came back
C2_Witness ==
    \E d \in DOMAIN devices :
        /\ lastProc.dev = d /\ Settled(d)
        /\ lastProc.old_status = "offline"
        /\ devices[d].https_enabled
        /\ devices[d].ping_status = "success"
        /\ devices[d].web_status = "failed"
        /\ devices[d].current_status = "degraded"

\* C3: the status a processed result leaves is determined by ping_status,
\* web_status, whether a web check is enabled and the previous status:
\* offline on ping failure; with ping success degraded on web failure,
\* online on web success or without a web check, the previous status while
\* the web signal is unset; the previous status while ping is unset
C3_StatusIsDerived ==
    (lastProc.dev # 0 /\ mon[MonitorThread].pc = "idle") =>
        LET device == devices[lastProc.dev]
            web == device.http_enabled \/ device.https_enabled
            ping_status == device.ping_status
            web_status == device.web_status
        IN device.current_status =
            CASE ping_status = "failed" -> "offline"
              [] ping_status = "success" /\ ~web -> "online"
              [] ping_status = "success" /\ web /\ web_status = "success"
                    -> "online"
              [] ping_status = "success" /\ web /\ web_status = "failed"
                    -> "degraded"
              [] OTHER -> lastProc.old_status

\* a slow ping success with the web signal still unset kept the previous
\* status of a device that has failed checks
C3_Witness ==
    /\ lastProc.dev # 0 /\ mon[MonitorThread].pc = "idle"
    /\ LET device == devices[lastProc.dev]
       IN /\ device.ping_status = "success"
          /\ device.http_enabled
          /\ device.web_status = "unset"
          /\ device.response_time = 500
          /\ device.failed_checks > 0
          /\ device.current_status = "offline"
          /\ lastProc.old_status = "offline"

\* C4: after every processed result uptime_percentage equals
\* successful_checks / total_checks * 100 (100 when total_checks is 0)
C4_UptimeMatchesCounters ==
    \A d \in DOMAIN devices :
        Settled(d) =>
            IF devices[d].total_checks = 0
            THEN devices[d].uptime_percentage = <<100, 1>>
            ELSE RatEq(devices[d].uptime_percentage,
                       <<devices[d].successful_checks * 100,
                         devices[d].total_checks>>)

\* the calls of attempt_recovery for device d made by thread t
CallsBy(d, t) == {i \in 1..Len(attempt_log[d]) : attempt_log[d][i].thread = t}

\* C5: for one device, any two calls of attempt_recovery are at least the
\* 5-minute cooldown apart, whichever threads made them
C5_OneAttemptPerCooldown ==
    \A d \in Devices :
        \A i, j \in 1..Len(attempt_log[d]) :
            i < j => attempt_log[d][j].at - attempt_log[d][i].at
                        >= RecoveryCooldown

\* the monitoring thread and a startup timer thread were inside
\* _attempt_auto_recovery for the same device at the same time: one of them
\* called attempt_recovery, the other one found the cooldown active
C5_Witness ==
    \E t, u \in Threads :
        /\ t # u
        /\ rec[t].dev = rec[u].dev
        /\ rec[t].pc \in {"call", "ret"} /\ rec[t].result # "cooldown"
        /\ rec[u].pc = "ret" /\ rec[u].result = "cooldown"
        /\ Len(attempt_log[rec[t].dev]) = 1

\* C6: a processed result that took the device from a non-degraded status
\* to degraded, with ssh_enabled, a recovery service and no attempt in the
\* last 5 minutes, called attempt_recovery exactly once; a result that left
\* the device degraded called it zero times
C6_OneAttemptOnDegradedEntry ==
    (lastProc.dev # 0) =>
        LET device == devices[lastProc.dev]
        IN /\ ( /\ lastProc.old_status # "degraded"
                /\ lastProc.new_status = "degraded"
                /\ device.ssh_enabled
                /\ auto_recovery_service
                /\ ~lastProc.recent_attempt ) => lastProc.attempts = 1
           /\ ( /\ lastProc.old_status = "degraded"
                /\ lastProc.new_status = "degraded" ) => lastProc.attempts = 0

\* a device went from offline to degraded and attempt_recovery was called
\* once during the processing of that result
C6_Witness ==
    /\ lastProc.dev # 0 /\ mon[MonitorThread].pc = "idle"
    /\ lastProc.old_status = "offline"
    /\ lastProc.new_status = "degraded"
    /\ ~lastProc.recent_attempt
    /\ lastProc.attempts = 1

\* C7 as stated: every call of attempt_recovery for a device is preceded,
\* in the same run, by a processed result that took the device from a
\* non-degraded status to degraded
C7_RecoveryOnlyOnTransition ==
    \A d \in Devices :
        Len(attempt_log[d]) > 0 => obs[d].degraded_entries > 0

\* C7 amended: every call of attempt_recovery for a device is made either by
\* the monitoring thread while it processes a result that takes the device
\* from a non-degraded status to degraded, or by the timer that start()
\* scheduled for a device whose stored status was degraded at startup
C7_RecoveryOnTransitionOrStartup ==
    [][ \A d \in Devices :
            attempt_log'[d] # attempt_log[d] =>
                LET e == attempt_log'[d][Len(attempt_log'[d])]
                IN \/ /\ e.thread = MonitorThread
                      /\ mon[MonitorThread].pc = "recovery" /\ mon[MonitorThread].dev = d
                      /\ mon[MonitorThread].old_status # "degraded"
                      /\ mon[MonitorThread].new_status = "degraded"
                   \/ /\ e.thread \in TimerIds
                      /\ timers[e.thread].kind = "startup"
                      /\ timers[e.thread].dev = d
                      /\ obs[d].degraded_at_start ]_vars

\* attempt_recovery was called for one device by a startup timer and, a
\* cooldown later, by the monitoring thread or the other way round
C7_Witness ==
    \E d \in Devices :
        /\ CallsBy(d, MonitorThread) # {}
        /\ \E t \in TimerIds : CallsBy(d, t) # {}

\* the pending re-check timers of device d
RecheckTimers(tm, d) ==
    {i \in TimerIds : tm[i].state = "pending" /\ tm[i].kind = "recheck"
                      /\ tm[i].dev = d}

\* C8: when attempt_recovery returns success exactly one re-check timer is
\* registered for the device, on_recovery_success fires and
\* requires_manual_intervention is false; at the first scheduler tick after
\* the timer has fired one task per enabled check kind of the device is
\* enqueued
C8_SuccessSchedulesRecheck ==
    [][ /\ \A t \in Threads :
            ( /\ rec[t].pc = "call" /\ rec'[t].pc = "ret"
              /\ rec'[t].result = "success" ) =>
                LET d == rec[t].dev
                IN /\ Cardinality(RecheckTimers(timers', d)) =
                        Cardinality(RecheckTimers(timers, d)) + 1
                   /\ RecheckTimers(timers', d) \subseteq active_timers'
                   /\ obs'[d].cb_recovery_success =
                        obs[d].cb_recovery_success + 1
                   /\ ~devices'[d].requires_manual_intervention
        /\ sched'.ticks = sched.ticks + 1 =>
            \A d \in sched.rechecked \cap DOMAIN devices :
                \A k \in EnabledChecks(devices[d]) :
                    \E i \in (Len(task_queue) + 1)..Len(task_queue') :
                        /\ task_queue'[i].dev = d
                        /\ task_queue'[i].check_type = k ]_vars

\* C9: when the recovery attempt made for a processed result failed
\* (attempt_recovery returned failure or raised), the device's
\* requires_manual_intervention is true once that result has been processed
\* and for as long as no later result of the device has been processed
C9_FailedRecoveryNeedsManual ==
    ( /\ lastProc.dev # 0 /\ mon[MonitorThread].pc = "idle"
      /\ lastProc.recovery \in {"failure", "raise"} )
        => devices[lastProc.dev].requires_manual_intervention

\* C10: the 'ping and web both failed' callback has fired once per entry of
\* the device into the state ping failed and web failed, and
\* requires_manual_intervention is false after a processed result that
\* leaves ping_status or web_status at 'success'
C10_ManualAlertEdgeTriggered ==
    \A d \in DOMAIN devices :
        Settled(d) =>
            /\ obs[d].cb_manual = obs[d].both_failed_entries
            /\ ( /\ lastProc.dev = d
                 /\ devices[d].ping_status = "success"
                        \/ devices[d].web_status = "success" )
                    => ~lastProc.manual

\* C11: a processed result whose derived status differs from the previous
\* current_status fired the on_status_change callback exactly once, with
\* the old and the new status; a result that left the status as it was
\* fired none
C11_StatusChangeCallback ==
    (lastProc.dev # 0) =>
        IF lastProc.new_status # lastProc.old_status
        THEN lastProc.status_cbs =
                << <<lastProc.old_status, lastProc.new_status>> >>
        ELSE lastProc.status_cbs = << >>

\* a device loaded as unknown went offline and the callback was called with
\* ('unknown', 'offline'); so far it is the only call for the device
C11_Witness ==
    /\ lastProc.dev # 0 /\ mon[MonitorThread].pc = "idle"
    /\ lastProc.status_cbs = << <<"unknown", "offline">> >>
    /\ devices[lastProc.dev].current_status = "offline"
    /\ obs[lastProc.dev].cb_status_change = 1
    /\ statistics.total_checks = 2

\* the tasks the step appends to the queue for device d and check kind k
Enqueued(d, k) ==
    {i \in (Len(task_queue) + 1)..Len(task_queue') :
        task_queue'[i].dev = d /\ task_queue'[i].check_type = k}

\* the step is one pass of the scheduler over the devices
IsSchedulerTick == sched'.ticks = sched.ticks + 1

\* C12: after force_immediate_check(id) has been called once or several
\* times since the last scheduler tick, the next tick enqueues exactly one
\* task per enabled check kind of the device
C12_ForceIsIdempotent ==
    [][ IsSchedulerTick =>
            \A d \in sched.forced \cap DOMAIN devices :
                \A k \in CheckTypes :
                    Cardinality(Enqueued(d, k)) =
                        IF k \in EnabledChecks(devices[d]) THEN 1 ELSE 0 ]_vars

\* C13: a scheduler tick enqueues exactly one task per enabled check kind
\* of every enabled device whose last check time is missing or at least
\* check_interval old and sets its last check time to the tick time; for
\* the other devices it enqueues nothing and leaves the time as it was
C13_TickSchedulesDueDevices ==
    [][ IsSchedulerTick =>
            /\ SubSeq(task_queue', 1, Len(task_queue)) = task_queue
            /\ \A d \in DOMAIN devices :
                IF /\ devices[d].enabled
                   /\ \/ d \notin DOMAIN last_check_times
                      \/ now - last_check_times[d] >= devices[d].check_interval
                THEN /\ \A k \in CheckTypes :
                            Cardinality(Enqueued(d, k)) =
                                IF k \in EnabledChecks(devices[d])
                                THEN 1 ELSE 0
                     /\ last_check_times'[d] = now
                ELSE /\ \A k \in CheckTypes : Enqueued(d, k) = {}
                     /\ IF d \in DOMAIN last_check_times
                        THEN last_check_times'[d] = last_check_times[d]
                        ELSE d \notin DOMAIN last_check_times' ]_vars

\* two ticks have run: the first found the device due and enqueued its
\* three tasks, the second one, later, found it not due and added nothing
C13_Witness ==
    /\ sched.ticks = 2
    /\ Len(task_queue) = 3
    /\ \E d \in DOMAIN devices :
        /\ last_check_times[d] = 0
        /\ now > 0
        /\ {task_queue[i].check_type : i \in 1..Len(task_queue)} =
                EnabledChecks(devices[d])

\* the step is a get_nowait of monitoring thread m
IsDequeue(m) == Len(loop'[m].futs) = Len(loop[m].futs) + 1

\* C14: a task is enqueued with priority 1 when its device is offline, 3
\* when it is degraded and 5 otherwise, and a get of the monitoring loop
\* never returns a task while a task with a smaller priority number is
\* pending in the queue
C14_PriorityOrder ==
    [][ /\ IsSchedulerTick =>
                \A i \in (Len(task_queue) + 1)..Len(task_queue') :
                    task_queue'[i].priority =
                        IF devices[task_queue'[i].dev].current_status = "offline"
                        THEN 1
                        ELSE IF devices[task_queue'[i].dev].current_status
                                    = "degraded"
                             THEN 3 ELSE 5
        /\ \A m \in MonitorThreads :
                IsDequeue(m) =>
                    \A j \in 1..Len(task_queue) :
                        loop'[m].futs[Len(loop'[m].futs)].task.priority
                            <= task_queue[j].priority ]_vars

\* the loop took the task of an offline device past the older tasks of a
\* device that is not offline, which are still pending
C14_Witness ==
    \E m \in MonitorThreads :
        /\ loop[m].pc = "dequeue"
        /\ Len(loop[m].futs) = 1
        /\ loop[m].futs[1].overtook
        /\ loop[m].futs[1].task.priority = 1
        /\ Len(task_queue) = 2
        /\ \A j \in 1..Len(task_queue) : task_queue[j].priority = 5

\* the step is a step of the scheduler loop or of a monitoring loop
IsLoopStep == IsSchedulerTick \/ sched_pc' # sched_pc \/ loop' # loop

\* C15 as stated: while the engine is paused no step of the two loops
\* enqueues or dequeues a task or changes the registered devices, the
\* last-check-time map or the pending queue
C15_PausedLoopsIdle ==
    [][ (paused /\ IsLoopStep) =>
            /\ task_queue' = task_queue
            /\ last_check_times' = last_check_times
            /\ DOMAIN devices' = DOMAIN devices ]_vars

\* both loops are at the test at the top of their while loop
LoopsAtTest ==
    /\ sched_pc = "test"
    /\ \A m \in MonitorThreads : loop[m].pc = "dead" \/ AtTop(m)

\* C15 amended: while the engine is paused no scheduler pass and no round
\* of the monitoring loop begins; once the pass and the round that had
\* already tested the flag are over, no step of the loops changes the
\* registered devices, the last-check-time map or the pending queue, and
\* resume() itself leaves them as they are
C15_PausedLoopsBeginNothing ==
    [][ /\ (paused /\ sched_pc = "test") => sched_pc' = "test"
        /\ \A m \in MonitorThreads :
                (paused /\ AtTop(m)) => (loop'[m].pc # "dequeue" /\ ~IsDequeue(m))
        /\ (paused /\ LoopsAtTest /\ IsLoopStep) =>
                /\ task_queue' = task_queue
                /\ last_check_times' = last_check_times
                /\ devices' = devices
        /\ (paused /\ ~paused') =>
                /\ task_queue' = task_queue
                /\ last_check_times' = last_check_times
                /\ devices' = devices ]_vars

\* the engine is paused with tasks pending, both loops wait at their test
C15_Witness ==
    /\ paused
    /\ LoopsAtTest
    /\ task_queue # << >>
    /\ \E m \in MonitorThreads : loop[m].pc = "top"

\* C20: when the handler of the round bound is through, every task of the
\* round whose probe was still running when the bound was hit has had
\* exactly one result processed, the failure, and no task of a round ever
\* has more than one result processed
C20_BoundFailsOutstanding ==
    \A m \in MonitorThreads :
        \A i \in 1..Len(loop[m].futs) :
            /\ loop[m].futs[i].results <= 1
            /\ ( /\ loop[m].pc = "timeout"
                 /\ RoundOver(m)
                 /\ mon[m].pc = "idle"
                 /\ loop[m].futs[i].at_bound )
                    => loop[m].futs[i].results = 1

\* C16: stop() called on a running engine always returns: its thread never
\* comes to wait for performance_metrics.lock while holding that lock
\* itself, a wait that nothing can end
C16_StopReturns == ~(stop_pc = "get_throughput" /\ metrics_lock = StopThread)

\* C17: once stop() has carried out its steps, no Timer created through
\* _schedule_timer is still pending and none runs its callback
C17_NoTimerAfterStop ==
    StopDone =>
        /\ life.late_timers = 0
        /\ \A i \in TimerIds : timers[i].state # "pending"

\* C18: when start() follows a stop() that has shut the pool down and
\* cleared the queue, the engine runs with a pool that accepts work: no
\* submission of the monitoring loop is rejected by a shut-down pool
C18_RestartedPoolAccepts ==
    life.restart = "after" =>
        /\ running
        /\ executor = "live"
        /\ ~executor_shutdown
        /\ life.rejected = 0

\* a task dequeued by the thread of the second start() has been run
C18_Witness ==
    /\ life.restart = "after"
    /\ monitor_thread # NoThread
    /\ \E i \in FutureIds :
        /\ i <= Len(loop[monitor_thread].futs)
        /\ loop[monitor_thread].futs[i].state = "done"
        /\ loop[monitor_thread].futs[i].results = 1

\* C19: no two monitoring threads are inside _process_check_result for
\* the same device at the same time
C19_ProcessingIsSerialized ==
    \A m1 \in MonitorThreads, m2 \in MonitorThreads :
        (m1 # m2 /\ mon[m1].pc # "idle" /\ mon[m2].pc # "idle")
            => mon[m1].dev # mon[m2].dev

\* as_completed hands future i of the round of thread m to the loop
Yields(m, i) ==
    /\ i <= Len(loop[m].futs)
    /\ i <= Len(loop'[m].futs)
    /\ ~loop[m].futs[i].yielded
    /\ loop'[m].futs[i].yielded

\* the probe of the task raised, or no probe is registered for its kind
ProbeFailed(fut) ==
    fut.probe = "raise" \/ fut.task.check_type \notin check_services

\* C21: a task whose probe raises, or whose kind has no registered probe,
\* gives a failed result with the error set, for the task's device and
\* kind, which the loop processes as a failure of that device; and when a
\* round is over every task of it has been run and processed once
C21_ProbeErrorsBecomeFailedResults ==
    /\ [][\A m \in MonitorThreads, i \in FutureIds :
            (Yields(m, i) /\ ProbeFailed(loop[m].futs[i])) =>
                LET fut == loop[m].futs[i]
                    d == fut.task.dev
                    result == execute_check(fut.task, fut.probe, TRUE)
                IN /\ ~result.success /\ result.error
                   /\ result.device_id = d
                   /\ result.check_type = fut.task.check_type
                   /\ statistics'.failed_checks = statistics.failed_checks + 1
                   /\ devices'[d].failed_checks = devices[d].failed_checks + 1
                   /\ fut.task.check_type = "ping" =>
                        devices'[d].ping_status = "failed"
                   /\ fut.task.check_type = "http" =>
                        devices'[d].web_status = "failed"]_vars
    /\ [](\A m \in MonitorThreads :
            (loop[m].pc = "wait" /\ RoundOver(m)) =>
                \A i \in 1..Len(loop[m].futs) :
                    /\ loop[m].futs[i].state = "done"
                    /\ loop[m].futs[i].results = 1)

\* a round in which the ping probe raised, the SNMP task found no probe
\* and the HTTP probe returned, all three processed
C21_Witness ==
    \E m \in MonitorThreads :
        /\ loop[m].pc = "wait" /\ RoundOver(m)
        /\ \E i, j, k \in 1..Len(loop[m].futs) :
            /\ loop[m].futs[i].task.check_type = "ping"
            /\ loop[m].futs[i].probe = "raise"
            /\ loop[m].futs[j].task.check_type = "snmp"
            /\ loop[m].futs[k].task.check_type = "http"
            /\ loop[m].futs[k].probe = "returned"
            /\ devices[loop[m].futs[i].task.dev].failed_checks >= 2
            /\ devices[loop[m].futs[i].task.dev].total_checks = 3

\* the step is a call of operation op on the batch writer (the clock
\* stands still during a call, and every call leaves its name in the log)
Call(op) == writer_log'.op = op /\ now' = now

\* the step writes nothing to the store and flushes nothing
WritesNothing ==
    /\ check_results' = check_results
    /\ total_batches' = total_batches
    /\ total_records' = total_records

\* C22: an add that leaves fewer than batch_size results in the buffer
\* only appends, and a wake-up of the ticker before flush_interval has
\* passed since the last flush does nothing, so nothing is written to the
\* store; force_flush() writes the N buffered results as one batch and
\* leaves the buffer empty (and does nothing when the buffer is empty)
C22_SmallBatchWaitsForForceFlush ==
    [][ /\ (Call("add") /\ pending_results + 1 < batch_size)
            => (WritesNothing /\ pending_results' = pending_results + 1)
        /\ (Call("tick") /\ now - last_flush < flush_interval)
            => (WritesNothing /\ pending_results' = pending_results)
        /\ Call("force")
            => /\ check_results' = check_results + pending_results
               /\ total_records' = total_records + pending_results
               /\ total_batches' = total_batches
                                   + (IF pending_results > 0 THEN 1 ELSE 0)
               /\ pending_results' = 0 ]_vars

\* before flush_interval has passed, force_flush() wrote the only batch:
\* the N < batch_size results added so far (the ticker had woken up)
C22_Witness ==
    /\ writer_log.op = "force"
    /\ now < flush_interval
    /\ total_batches = 1
    /\ check_results \in 2..(batch_size - 1)
    /\ total_records = check_results
    /\ pending_results = 0

\* C23: with a store that accepts writes, the add that brings the buffer
\* to batch_size results flushes it before it returns, and a wake-up of the
\* ticker with a non-empty buffer, flush_interval or more after the last
\* flush, flushes it; so the buffer holds fewer than batch_size results
\* whenever add_check_result has returned
C23_FlushOnSizeOrTime ==
    /\ [](pending_results < batch_size)
    /\ [][ /\ (Call("add") /\ pending_results + 1 >= batch_size)
               => /\ pending_results' = 0
                  /\ check_results' = check_results + pending_results + 1
                  /\ total_batches' = total_batches + 1
           /\ ( /\ Call("tick") /\ pending_results > 0
                /\ now - last_flush >= flush_interval )
               => /\ pending_results' = 0
                  /\ check_results' = check_results + pending_results
                  /\ total_batches' = total_batches + 1
                  /\ last_flush' = now ]_vars

\* the add of result number batch_size flushed the buffer, after the
\* ticker had flushed an earlier, smaller batch
C23_Witness ==
    /\ writer_log.op = "add"
    /\ pending_results = 0
    /\ total_batches = 2
    /\ last_flush = flush_interval
    /\ check_results > batch_size

\* C24: whichever way a flush fails, the background flush thread stays
\* alive and no exception comes out of add_check_result or force_flush
C24_FlushFailuresAreContained ==
    /\ flush_thread = "alive"
    /\ ~(writer_log.op \in {"add", "force"} /\ writer_log.raised)

\* C25: a result during whose processing the store failed (no session, or
\* a failed commit) was processed to the end of the handler, where
\* on_check_complete fires: the device has the status the result gives it,
\* the result is counted as a success or as a failure, and
\* uptime_percentage is the one of the counters
C25_StoreFailureKeepsPipeline ==
    \A d \in DOMAIN devices :
        (Settled(d) /\ lastProc.dev = d /\ lastProc.fault # "ok")
            => /\ ~lastProc.aborted
               /\ devices[d].current_status = lastProc.new_status
               /\ devices[d].successful_checks + devices[d].failed_checks
                    = devices[d].total_checks
               /\ RatEq(devices[d].uptime_percentage,
                        <<devices[d].successful_checks * 100,
                          devices[d].total_checks>>)

\* the element of the sorted window at index ceil(n * p / 100) - 1,
\* clamped to the window (indices from 0, as the specification counts)
ReferencePercentile(times, p) ==
    LET s == sorted(times)
        n == Len(s)
        c == (n * p + 99) \div 100
        idx == IF c - 1 < 0 THEN 0 ELSE IF c - 1 > n - 1 THEN n - 1 ELSE c - 1
    IN <<s[idx + 1], 1>>

\* C26: for a non-empty window, p50, p95 and p99 of get_percentiles are
\* the elements of the sorted window at index ceil(n * p) - 1
C26_PercentilesAreNearestRank ==
    percentiles.times # << >>
        => /\ RatEq(percentiles.p50, ReferencePercentile(percentiles.times, 50))
           /\ RatEq(percentiles.p95, ReferencePercentile(percentiles.times, 95))
           /\ RatEq(percentiles.p99, ReferencePercentile(percentiles.times, 99))

\* the last n elements of a sequence
LastOf(seq, n) ==
    IF Len(seq) <= n THEN seq ELSE SubSeq(seq, Len(seq) - n + 1, Len(seq))

\* C27: for every check kind the window holds at most window_size
\* latencies, they are the latencies of the most recent record_check calls
\* in arrival order, check_counts counts every call and success_counts the
\* successful ones
C27_WindowKeepsMostRecent ==
    \A k \in CheckTypes :
        /\ Len(response_times[k]) <= window_size
        /\ response_times[k] =
             LET recent == LastOf(recorded[k], window_size)
             IN [i \in 1..Len(recent) |-> recent[i].response_time]
        /\ check_counts[k] = Len(recorded[k])
        /\ success_counts[k] =
             Cardinality({i \in 1..Len(recorded[k]) : recorded[k][i].success})
        /\ success_counts[k] <= check_counts[k]

\* a full window received one more sample and dropped its oldest one,
\* which differed from the one that is the oldest now; one of the checks
\* recorded had failed
C27_Witness ==
    \E k \in MetricKinds :
        /\ Len(recorded[k]) = window_size + 1
        /\ Len(response_times[k]) = window_size
        /\ recorded[k][1].response_time # response_times[k][1]
        /\ success_counts[k] < check_counts[k]

\* the step is a call of get on the device cache (every get counts a hit
\* or a miss and leaves its name in the log)
IsCacheGet == cache_log'.op = "get" /\ hits' + misses' # hits + misses

\* C28: get(id) reports a hit exactly when an entry for id is in the cache
\* and the current time is strictly before its expires_at; a hit leaves the
\* cache as it is, a miss leaves no entry for id (an expired one is
\* removed), and the call adds one to exactly one of hits and misses
C28_GetHitsOnlyBeforeExpiry ==
    [][ IsCacheGet =>
          LET d == cache_log'.dev
              hit == cache_log'.hit
          IN /\ hit <=> (cache[d].cached /\ now < cache[d].expires_at)
             /\ hit => (cache' = cache /\ hits' = hits + 1 /\ misses' = misses)
             /\ ~hit => /\ cache' = [cache EXCEPT ![d] = NoEntry]
                        /\ misses' = misses + 1 /\ hits' = hits ]_vars

\* after an earlier hit, a get at the very instant the entry expired
\* reported a miss and removed the entry
C28_Witness ==
    /\ cache_log.op = "get"
    /\ ~cache_log.hit
    /\ cache_log.entry.cached
    /\ cache_log.at = cache_log.entry.expires_at
    /\ ~cache[cache_log.dev].cached
    /\ hits > 0
    /\ misses = 1

\* the step is a call of reload_devices
IsReload == life'.reloads = life.reloads + 1

\* the state the engine keeps for a device while it runs
RuntimeState(device) ==
    [ping_status |-> device.ping_status, web_status |-> device.web_status,
     current_status |-> device.current_status,
     total_checks |-> device.total_checks,
     successful_checks |-> device.successful_checks,
     failed_checks |-> device.failed_checks,
     requires_manual_intervention |-> device.requires_manual_intervention]

\* C29: reload_devices leaves in the registry exactly the devices whose
\* rows are enabled, and a device that was registered before and still is
\* keeps its runtime state and its last-check time
C29_ReloadKeepsRuntimeState ==
    [][ IsReload =>
          /\ DOMAIN devices' = {d \in Devices : db[d].enabled}
          /\ \A d \in DOMAIN devices \cap DOMAIN devices' :
                /\ RuntimeState(devices'[d]) = RuntimeState(devices[d])
                /\ last_check_times'[d] = last_check_times[d] ]_vars

\* C30: no caller of the periodic or of the on-demand summary is left
\* inside get_summary, holding the lock of the metrics
C30_SummariesReturn ==
    /\ metrics_lock \notin {SchedThread, PanelThread}
    /\ sched_pc # "get_throughput"

\* C31: while the engine runs and is not paused its threads keep going: the
\* scheduler thread is never left inside its periodic summary, waiting for
\* the lock of the metrics that it holds itself, and no monitoring thread
\* is left with a result in its hands, waiting for a lock of the metrics
\* that a waiting thread holds (no step of the program ends either wait,
\* so the scheduler would tick no more and the result would never be
\* processed)
C31_SchedulerAndResultsGoOn ==
    (running /\ ~paused) =>
        /\ ~(sched_pc = "get_throughput" /\ metrics_lock = SchedThread)
        /\ \A m \in MonitorThreads :
                ~(mon[m].pc = "record_check" /\ metrics_lock # NoThread)

\* C32: a task that a monitoring thread has taken from the queue never has
\* two results processed, and when the round it was taken in is over (the
\* thread is back at the top of its loop, after as_completed or after the
\* handler of the round bound) exactly one result has been processed for
\* it, whether or not its probe was submitted, returned or ran into the
\* bound
C32_OneResultPerDequeuedTask ==
    \A m \in MonitorThreads :
        LET round == loop[m].futs
        IN /\ \A i \in 1..Len(round) : round[i].results <= 1
           /\ (AtTop(m) /\ loop[m].pc # "top") =>
                \A i \in 1..Len(round) : round[i].results = 1

\* C33: whenever no call of _process_check_result is under way for a
\* device, its total_checks equals successful_checks + failed_checks, also
\* after calls in which the store or the on_recovery_failure callback
\* raised
C33_CountersAddUp ==
    \A d \in DOMAIN devices :
        Settled(d) =>
            devices[d].total_checks =
                devices[d].successful_checks + devices[d].failed_checks

\* C34: when a result of a device has been processed to the end of the
\* handler, the runtime columns of the device's row (current_status,
\* total_checks, successful_checks, failed_checks, uptime_percentage) equal
\* the fields of the device in memory, so that the row satisfies
\* total_checks = successful_checks + failed_checks
C34_StoredRowEqualsDevice ==
    \A d \in DOMAIN devices :
        (Settled(d) /\ lastProc.dev = d /\ ~lastProc.aborted
            /\ lastProc.fault = "ok")
            => /\ db[d].current_status = devices[d].current_status
               /\ db[d].total_checks = devices[d].total_checks
               /\ db[d].successful_checks = devices[d].successful_checks
               /\ db[d].failed_checks = devices[d].failed_checks
               /\ db[d].uptime_percentage = devices[d].uptime_percentage
               /\ db[d].total_checks =
                    db[d].successful_checks + db[d].failed_checks

\* the step is one of the steps of stop()
IsStopStep == stop_pc' # stop_pc

\* C35: a task whose future was cancelled by the shutdown of the pool in
\* stop() never has a result processed, neither by as_completed nor by the
\* handler of the round bound, and no step of stop() changes a device (its
\* ping_status, web_status, current_status or counters) or the statistics
C35_CancelledByStopIsNotAFailure ==
    /\ [](\A m \in MonitorThreads :
            \A i \in 1..Len(loop[m].futs) :
                loop[m].futs[i].cancelled_by = "stop"
                    => loop[m].futs[i].results = 0)
    /\ [][IsStopStep => (devices' = devices /\ statistics' = statistics)]_vars

\* stop() has cancelled the future of a ping task in the pool's queue, the
\* round has run into its bound and the handler is through: the device has
\* no failure
C35_Witness ==
    \E m \in MonitorThreads :
        /\ loop[m].pc = "timeout" /\ RoundOver(m) /\ mon[m].pc = "idle"
        /\ \E i \in 1..Len(loop[m].futs) :
            LET fut == loop[m].futs[i]
            IN /\ fut.cancelled_by = "stop" /\ fut.state = "cancelled"
               /\ fut.task.check_type = "ping"
               /\ devices[fut.task.dev].ping_status = "unset"
               /\ devices[fut.task.dev].failed_checks = 0
               /\ devices[fut.task.dev].current_status = "unknown"

\* the size of the buffer when the call of the step comes to _flush: an
\* add has appended its result before
BufferAtFlush == pending_results + (IF writer_log'.op = "add" THEN 1 ELSE 0)

\* C36: a call whose flush fails leaves in the buffer exactly the results
\* it held when the flush began and writes nothing (the store, total_batches
\* and total_records are unchanged); a flush that succeeds writes the whole
\* buffer as one batch, empties it and adds its size to total_records; so
\* the store always holds total_records results, and every result handed
\* to the writer is either in the buffer or written once
C36_FailedFlushKeepsBuffer ==
    /\ [][(now' = now) =>
            /\ writer_log'.outcome # "ok" =>
                    /\ pending_results' = BufferAtFlush
                    /\ WritesNothing
            /\ total_batches' # total_batches =>
                    /\ writer_log'.outcome = "ok"
                    /\ total_batches' = total_batches + 1
                    /\ pending_results' = 0
                    /\ total_records' = total_records + BufferAtFlush
                    /\ check_results' = check_results + BufferAtFlush]_vars
    /\ [](check_results = total_records)

\* a flush has failed and a later one has written the results it left in
\* the buffer
C36_Witness ==
    /\ faults = 1
    /\ writer_log.outcome = "ok"
    /\ total_batches = 1
    /\ pending_results = 0
    /\ total_records >= 2
    /\ check_results = total_records

\* the calls of attempt_recovery for device d made by monitoring threads
MonitorCalls(d) ==
    {i \in 1..Len(attempt_log[d]) : attempt_log[d][i].thread \in MonitorThreads}

\* the last processed result found device d degraded and left it degraded,
\* after the attempt of its entry into degraded had been skipped on the
\* cooldown, at a time when no attempt had been made for the cooldown
StillDegradedAfterCooldown(d) ==
    /\ d \in DOMAIN devices
    /\ Settled(d) /\ lastProc.dev = d
    /\ RecoveryConfigured(devices[d], auto_recovery_service)
    /\ obs[d].entry_skipped
    /\ lastProc.old_status = "degraded" /\ lastProc.new_status = "degraded"
    /\ ~lastProc.recent_attempt

\* C37 as stated: a device whose attempt was skipped on the cooldown when it
\* entered degraded, and which a check processed after the end of the
\* cooldown finds degraded still, gets its recovery attempt with that check
C37_RetryAfterCooldown ==
    \A d \in Devices :
        StillDegradedAfterCooldown(d) => lastProc.attempts = 1

\* C37: the attempt that the cooldown skipped when a device entered
\* degraded is not made up for: while the device stays degraded no
\* monitoring thread calls attempt_recovery for it, however many results
\* are processed and however long ago the cooldown has ended
C37_SkippedAttemptIsNotRetried ==
    [][\A d \in Devices :
        (obs[d].entry_skipped /\ obs'[d].entry_skipped)
            => MonitorCalls(d)' = MonitorCalls(d)]_vars

\* a check processed after the end of the cooldown has found the device
\* degraded still, and no attempt was made
C37_Witness ==
    \E d \in Devices :
        /\ StillDegradedAfterCooldown(d)
        /\ lastProc.attempts = 0
        /\ Len(attempt_log[d]) = 1
        /\ now - attempt_log[d][1].at >= RecoveryCooldown

\* C38: once remove_device(id) has returned, no result for that device is
\* processed or persisted (its row stays as it was at the removal), no task
\* for it is added to the queue, and last_check_times has no entry for it
C38_RemovedDeviceIsLeftAlone ==
    \A d \in DOMAIN life.removed :
        d \notin DOMAIN devices =>
            /\ life.removed[d].processed = 0
            /\ db[d] = life.removed[d].row
            /\ Cardinality(QueuedFor(d)) <= life.removed[d].queued
            /\ d \notin DOMAIN last_check_times

\* C39: task_queue never holds two tasks of the same device and check kind:
\* no round of a device is enqueued while a task of its previous round is
\* still in the queue
C39_OneTaskPerDeviceAndKind ==
    \A i, j \in 1..Len(task_queue) :
        (/\ task_queue[i].dev = task_queue[j].dev
         /\ task_queue[i].check_type = task_queue[j].check_type) => i = j

====
